---------------------------- MODULE Spec2Model ----------------------------
(***************************************************************************)
(* A model of the zento board generator and connectivity engine.          *)
(*                                                                         *)
(* Sources: src/unnamed/part_002 (App.jsx: progression helpers, seeded    *)
(* PRNG, makeBoard, generateSolvedEdges, applySymmetricBlanks, validators, *)
(* computeConnections, computeCompleteDirs, rotateTile).                   *)
(*                                                                         *)
(* Conventions                                                             *)
(*  - a cell "r-c" is the integer r*COLS + c (row-major, as in the tiles   *)
(*    array); an edge-set is a 4-tuple of booleans indexed 1..4 for the    *)
(*    directions N=0, E=1, S=2, W=3 (direction d is component d+1);       *)
(*  - a 32-bit word is a pair <<hi, lo>> of 16-bit halves, because the     *)
(*    checker's integers are 32-bit signed;                                *)
(*  - a text is the tuple of its UTF-16 code units;                        *)
(*  - a JavaScript value is a tagged tuple: <<"undef">>, <<"null">>,       *)
(*    <<"nan">>, <<"inf">>, <<"ninf">>, <<"bool", b>>, <<"num", n>> with   *)
(*    n in tenths (<<"num", 105>> is 10.5), <<"str", text>>, <<"obj", f>>  *)
(*    with f a function from property names to values.                     *)
(***************************************************************************)
EXTENDS Integers, Sequences, FiniteSets, TLC

(***************************************************************************)
(* Program constants                                                       *)
(***************************************************************************)
ROWS == 10

COLS == 6

TOTAL_LEVELS == 96

MIN_TILES == 4

TILE_TYPES ==
  {"blank", "terminal", "straight", "curveLeft", "curveRight", "tJunction", "crossCurve"}

Keys ==
  <<"gapRate", "gapClusters", "curveBias", "terminalRate", "terminalSpacing",
    "straightRunMax", "emptyRowMax", "emptyColMax", "centerBias", "variant">>

KeySet == {Keys[k] : k \in 1..Len(Keys)}

PROGRESSION_SETTINGS_RANGES ==
  [gapRate |-> [min |-> 0, max |-> 96],
   gapClusters |-> [min |-> 0, max |-> 4],
   curveBias |-> [min |-> 20, max |-> 40],
   terminalRate |-> [min |-> 12, max |-> 24],
   terminalSpacing |-> [min |-> 1, max |-> 5],
   straightRunMax |-> [min |-> 2, max |-> 6],
   emptyRowMax |-> [min |-> 0, max |-> 5],
   emptyColMax |-> [min |-> 0, max |-> 5],
   centerBias |-> [min |-> 0, max |-> 100],
   variant |-> [min |-> 0, max |-> 9]]

DEFAULT_PROGRESSION_SETTINGS ==
  [gapRate |-> 18, gapClusters |-> 2, curveBias |-> 28, terminalRate |-> 18,
   terminalSpacing |-> 2, straightRunMax |-> 4, emptyRowMax |-> 2,
   emptyColMax |-> 2, centerBias |-> 0, variant |-> 0]

BASE_EDGES ==
  [blank |-> <<FALSE, FALSE, FALSE, FALSE>>,
   terminal |-> <<FALSE, FALSE, TRUE, FALSE>>,
   straight |-> <<TRUE, FALSE, TRUE, FALSE>>,
   curveLeft |-> <<TRUE, FALSE, FALSE, TRUE>>,
   curveRight |-> <<TRUE, TRUE, FALSE, FALSE>>,
   tJunction |-> <<TRUE, TRUE, FALSE, TRUE>>,
   crossCurve |-> <<TRUE, TRUE, TRUE, TRUE>>]

NoEdges == <<FALSE, FALSE, FALSE, FALSE>>

Dirs == 0..3

Min(a, b) == IF a < b THEN a ELSE b

Max(a, b) == IF a > b THEN a ELSE b

Abs(a) == IF a < 0 THEN -a ELSE a

clampValue(value, min, max) == Min(max, Max(min, value))

(***************************************************************************)
(* 32-bit words as <<hi, lo>>; bitwise operations by 4-bit tables          *)
(***************************************************************************)
RECURSIVE XorNat(_, _)
XorNat(a, b) ==
  IF a = 0 THEN b
  ELSE IF b = 0 THEN a
  ELSE (((a % 2) + (b % 2)) % 2) + 2 * XorNat(a \div 2, b \div 2)

RECURSIVE OrNat(_, _)
OrNat(a, b) ==
  IF a = 0 THEN b
  ELSE IF b = 0 THEN a
  ELSE (IF a % 2 = 1 \/ b % 2 = 1 THEN 1 ELSE 0) + 2 * OrNat(a \div 2, b \div 2)

XorNibble == [a \in 0..15 |-> [b \in 0..15 |-> XorNat(a, b)]]

Or61Byte == [a \in 0..255 |-> OrNat(a, 61)]

XorByte(a, b) ==
  XorNibble[a \div 16][b \div 16] * 16 + XorNibble[(a % 16)][(b % 16)]

Xor16(a, b) ==
  XorByte(a \div 256, b \div 256) * 256 + XorByte(a % 256, b % 256)

Xor32(x, y) == <<Xor16(x[1], y[1]), Xor16(x[2], y[2])>>

Add32(x, y) ==
  LET lo == x[2] + y[2]
  IN  <<(x[1] + y[1] + (lo \div 65536)) % 65536, lo % 65536>>

\* x >>> k for 0 < k < 16
Shr32(x, k) ==
  LET p == 2 ^ k
      q == 2 ^ (16 - k)
  IN  <<x[1] \div p, ((x[1] % p) * q) + (x[2] \div p)>>

\* Math.imul: the low 32 bits of the product, by 8-bit limbs.  c0..c3 are
\* the column sums with the carries of the lower columns added
ImulOut(c0, c1, c2, c3) ==
  <<((c3 % 256) * 256) + (c2 % 256), ((c1 % 256) * 256) + (c0 % 256)>>

ImulCarry3(c0, c1, c2, s3) == ImulOut(c0, c1, c2, s3 + (c2 \div 256))

ImulCarry2(c0, c1, s2, s3) == ImulCarry3(c0, c1, s2 + (c1 \div 256), s3)

ImulCarry1(c0, s1, s2, s3) == ImulCarry2(c0, s1 + (c0 \div 256), s2, s3)

ImulLimbs(a0, a1, a2, a3, b0, b1, b2, b3) ==
  ImulCarry1(a0 * b0,
             a0 * b1 + a1 * b0,
             a0 * b2 + a1 * b1 + a2 * b0,
             a0 * b3 + a1 * b2 + a2 * b1 + a3 * b0)

Imul32(x, y) ==
  ImulLimbs(x[2] % 256, x[2] \div 256, x[1] % 256, x[1] \div 256,
            y[2] % 256, y[2] \div 256, y[1] % 256, y[1] \div 256)

\* the word of a small natural number
Word(n) == <<n \div 65536, n % 65536>>

\* 2166136261 and 16777619, the FNV-1a offset basis and prime
FnvBasis == <<33052, 40389>>

FnvPrime == <<256, 403>>

\* 0x6D2B79F5, the mulberry32 increment
MulberryStep == <<27947, 31221>>

RECURSIVE HashFrom(_, _, _)
\* the loop of hashStringToInt from character i on, h being the hash so far
HashNext(h, str, i) == IF h[1] >= 0 THEN HashFrom(h, str, i) ELSE h

HashFrom(h, str, i) ==
  IF i > Len(str) THEN h
  ELSE HashNext(Imul32(Xor32(h, Word(str[i])), FnvPrime), str, i + 1)

\* hashStringToInt(str) for a text; a value with no length hashes as ""
hashStringToInt(str) == HashFrom(FnvBasis, str, 1)

\* mulberry32(seed): the generator's state after seeding
mulberry32(seed) == seed

\* the state after one more call of random()
RandAdvance(t) == Add32(t, MulberryStep)

\* the state after k more calls: t + k * 0x6D2B79F5 in 32 bits
RandSkip(t, k) == Add32(t, Imul32(Word(k), MulberryStep))

\* the three mixing steps of random() on x = t
MixFirst(x) == Imul32(Xor32(x, Shr32(x, 15)), <<x[1], x[2] + (1 - (x[2] % 2))>>)

MixSecond(x) ==
  Xor32(x, Add32(x, Imul32(Xor32(x, Shr32(x, 7)),
                           <<x[1], ((x[2] \div 256) * 256) + Or61Byte[(x[2] % 256)]>>)))

MixThird(x) == Xor32(x, Shr32(x, 14))

\* the 32-bit numerator u of the value u / 4294967296 that the call of
\* random() leaving the state at t returns
RandOut(t) == MixThird(MixSecond(MixFirst(t)))

\* the k-th next value of random() from state t (k >= 1)
Rand(t, k) == RandOut(RandSkip(t, k))

\* Math.floor((u / 2^32) * n) for 0 < n < 2^15
RandInt(u, n) == ((u[1] * n) + ((u[2] * n) \div 65536)) \div 65536

\* (u / 2^32) < 0.85 and < 0.18: 0.85 * 2^32 = 3650722201.6 and
\* 0.18 * 2^32 = 773094113.28
LessThan085(u) == u[1] < 55705 \/ (u[1] = 55705 /\ u[2] <= 39321)

LessThan018(u) == u[1] < 11796 \/ (u[1] = 11796 /\ u[2] <= 31457)

(***************************************************************************)
(* Texts and JavaScript values                                             *)
(***************************************************************************)
\* charCodeAt of the characters the inputs are written with
CharCode ==
  [c \in {"0", "1", "2", "3", "4", "5", "6", "7", "8", "9", "-", "P", "p", "Q",
          "z", "e", "n", "o", "a", "x", " ", ".", "t", "r", "l"} |->
     CASE c = "0" -> 48 [] c = "1" -> 49 [] c = "2" -> 50 [] c = "3" -> 51
       [] c = "4" -> 52 [] c = "5" -> 53 [] c = "6" -> 54 [] c = "7" -> 55
       [] c = "8" -> 56 [] c = "9" -> 57 [] c = "-" -> 45 [] c = "P" -> 80
       [] c = "p" -> 112 [] c = "Q" -> 81 [] c = "z" -> 122 [] c = "e" -> 101
       [] c = "n" -> 110 [] c = "o" -> 111 [] c = "a" -> 97 [] c = "x" -> 120
       [] c = " " -> 32 [] c = "." -> 46 [] c = "t" -> 116 [] c = "r" -> 114
       [] c = "l" -> 108]

Text(chars) == [i \in 1..Len(chars) |-> CharCode[chars[i]]]

Undefined == <<"undef">>

JsNull == <<"null">>

NaN == <<"nan">>

Num(n) == <<"num", n * 10>>

\* a number given in tenths
Tenths(x) == <<"num", x>>

PosInfinity == <<"inf">>

NegInfinity == <<"ninf">>

Bool(b) == <<"bool", b>>

Str(text) == <<"str", text>>

IsDigit(ch) == ch >= 48 /\ ch <= 57

\* the largest magnitude a decimal text is read to; every range maximum and
\* every clamp lies far below it, so reading stops growing here
NumberCap == 1000000

RECURSIVE DecValFrom(_, _, _)
DecValFrom(text, i, acc) ==
  IF i > Len(text) THEN acc
  ELSE DecValFrom(text, i + 1, Min(NumberCap, acc * 10 + (text[i] - 48)))

DecVal(text) == DecValFrom(text, 1, 0)

RECURSIVE DecStr(_)
\* String(n) for an integer n >= 0
DecStr(n) == IF n < 10 THEN <<48 + n>> ELSE DecStr(n \div 10) \o <<48 + (n % 10)>>

\* Number(v): <<"num", tenths>>, NaN or an infinity. Of the strings, the
\* ones made of digits only (the captures of the seed patterns, "" included,
\* which reads as 0) are read as decimal integers; the other strings given to
\* it here hold a letter and read as NaN.
Number(v) ==
  CASE v[1] = "num" -> v
    [] v[1] = "null" -> Num(0)
    [] v[1] = "bool" -> IF v[2] THEN Num(1) ELSE Num(0)
    [] v[1] = "str" ->
         IF \A i \in 1..Len(v[2]) : IsDigit(v[2][i]) THEN Num(DecVal(v[2])) ELSE NaN
    [] v[1] \in {"inf", "ninf"} -> v
    [] OTHER -> NaN

NumberIsFinite(raw) == raw[1] = "num"

\* Math.round of a number given in tenths: the nearest integer, ties upward
MathRound(raw) == (raw[2] + 5) \div 10

\* !v
Falsy(v) ==
  \/ v[1] \in {"undef", "null", "nan"}
  \/ v[1] = "bool" /\ ~v[2]
  \/ v[1] = "num" /\ v[2] = 0
  \/ v[1] = "str" /\ Len(v[2]) = 0

\* settings[key]
Prop(obj, key) == IF key \in DOMAIN obj[2] THEN obj[2][key] ELSE Undefined

\* the object { key: value } of a record of integers
ObjOf(rec) == <<"obj", [k \in DOMAIN rec |-> Num(rec[k])]>>

(***************************************************************************)
(* The level list                                                          *)
(***************************************************************************)
\* an array value
Arr(items) == <<"arr", items>>

\* source[index], index counted from 0
ItemAt(source, index) == IF index < Len(source) THEN source[index + 1] ELSE Undefined

\* the array the entries are read from: the argument, its levels, or []
LevelSource(list) ==
  IF list[1] = "arr" THEN list[2]
  ELSE IF ~Falsy(list) /\ list[1] = "obj" /\ Prop(list, "levels")[1] = "arr"
    THEN Prop(list, "levels")[2]
  ELSE <<>>

\* fault: an entry that is no string is kept, only a missing one is replaced
normalizeLevelListKeeping(list) ==
  [i \in 1..TOTAL_LEVELS |->
     LET value == ItemAt(LevelSource(list), i - 1)
     IN  IF value[1] \in {"undef", "null"} THEN Str(<<>>) ELSE value]

normalizeLevelList(list) ==
  [i \in 1..TOTAL_LEVELS |->
     LET value == ItemAt(LevelSource(list), i - 1)
     IN  IF value[1] = "str" THEN value ELSE Str(<<>>)]

\* the bake plugin's own count of levels
BAKE_TOTAL_LEVELS == 96

\* the copy of normalizeLevelList in the bake plugin of the dev server
bakeNormalizeLevelList(list) ==
  LET source == IF list[1] = "arr" THEN list[2]
                ELSE IF ~Falsy(list) /\ list[1] = "obj" /\ Prop(list, "levels")[1] = "arr"
                  THEN Prop(list, "levels")[2]
                ELSE <<>>
  IN  [i \in 1..BAKE_TOTAL_LEVELS |->
         LET value == ItemAt(source, i - 1)
         IN  IF value[1] = "str" THEN value ELSE Str(<<>>)]

(***************************************************************************)
(* Progression helpers                                                     *)
(***************************************************************************)
NormalizeField(settings, key) ==
  LET raw == Number(Prop(settings, key))
      range == PROGRESSION_SETTINGS_RANGES[key]
  IN  IF NumberIsFinite(raw)
        THEN clampValue(MathRound(raw), range.min, range.max)
        ELSE DEFAULT_PROGRESSION_SETTINGS[key]

normalizeProgressionSettings(settings) ==
  IF Falsy(settings) \/ settings[1] # "obj"
    THEN DEFAULT_PROGRESSION_SETTINGS
    ELSE [key \in KeySet |-> NormalizeField(settings, key)]

\* fault: the fields written in the order the ranges declare them
BuildFieldOrderDeclared ==
  <<"gapRate", "gapClusters", "curveBias", "terminalRate", "terminalSpacing",
    "straightRunMax", "emptyRowMax", "emptyColMax", "centerBias", "variant">>

\* the order in which buildProgressionSeed writes the fields
BuildFieldOrder ==
  <<"gapRate", "gapClusters", "curveBias", "terminalRate", "straightRunMax",
    "terminalSpacing", "emptyRowMax", "emptyColMax", "centerBias", "variant">>

RECURSIVE JoinFields(_, _, _)
JoinFields(normalized, order, i) ==
  IF i > Len(order) THEN <<>>
  ELSE (IF i = 1 THEN <<>> ELSE <<45>>) \o DecStr(normalized[order[i]])
         \o JoinFields(normalized, order, i + 1)

buildProgressionSeed(settings) ==
  <<80>> \o JoinFields(normalizeProgressionSettings(settings), BuildFieldOrder, 1)

RECURSIVE SplitFrom(_, _, _, _)
\* the pieces of text[i..] between the "-" characters
SplitFrom(text, i, cur, acc) ==
  IF i > Len(text) THEN Append(acc, cur)
  ELSE IF text[i] = 45 THEN SplitFrom(text, i + 1, <<>>, Append(acc, cur))
  ELSE SplitFrom(text, i + 1, Append(cur, text[i]), acc)

\* fault: the pattern without its closing anchor, matching a text that goes
\* on after the n-th number
SeedMatchUnanchored(text, n) ==
  IF Len(text) = 0 \/ text[1] \notin {80, 112} THEN <<>>
  ELSE LET fields == SplitFrom(text, 2, <<>>, <<>>)
       IN  IF /\ Len(fields) >= n
              /\ \A k \in 1..n :
                   /\ Len(fields[k]) > 0
                   /\ \A i \in 1..Len(fields[k]) : IsDigit(fields[k][i])
             THEN SubSeq(fields, 1, n)
             ELSE <<>>

\* the capture groups of /^P(\d+)-(\d+)...$/i with n groups, or <<>> when
\* the text does not match
SeedMatch(text, n) ==
  IF Len(text) = 0 \/ text[1] \notin {80, 112} THEN <<>>
  ELSE LET fields == SplitFrom(text, 2, <<>>, <<>>)
       IN  IF /\ Len(fields) = n
              /\ \A k \in 1..n :
                   /\ Len(fields[k]) > 0
                   /\ \A i \in 1..Len(fields[k]) : IsDigit(fields[k][i])
             THEN fields
             ELSE <<>>

NULL == [isNull |-> TRUE]

\* the properties the ten captures of the full pattern are stored under
SeedFieldOrder ==
  <<"gapRate", "gapClusters", "curveBias", "terminalRate", "straightRunMax",
    "terminalSpacing", "emptyRowMax", "emptyColMax", "centerBias", "variant">>

\* the object literal built from the captures: names[k] is the property that
\* capture k is stored under
CapturedObject(match, names) ==
  <<"obj", [key \in {names[k] : k \in 1..Len(names)} |->
              Number(Str(match[CHOOSE k \in 1..Len(names) : names[k] = key]))]>>

\* fault: the ninth capture of the nine-number pattern stored as centerBias,
\* as the ninth capture of the full pattern is
LegacyFieldOrderCentered ==
  <<"gapRate", "gapClusters", "curveBias", "terminalRate", "straightRunMax",
    "terminalSpacing", "emptyRowMax", "emptyColMax", "centerBias">>

LegacyFieldOrder ==
  <<"gapRate", "gapClusters", "curveBias", "terminalRate", "straightRunMax",
    "terminalSpacing", "emptyRowMax", "emptyColMax", "variant">>

LegacyShortFieldOrder ==
  <<"gapRate", "gapClusters", "curveBias", "terminalRate", "straightRunMax", "variant">>

parseProgressionSeed(seedText) ==
  IF Falsy(seedText) \/ seedText[1] # "str" THEN NULL
  ELSE LET match == SeedMatch(seedText[2], 10)
           legacyMatch == SeedMatch(seedText[2], 9)
           legacyMatchShort == SeedMatch(seedText[2], 6)
       IN  IF match # <<>>
             THEN normalizeProgressionSettings(CapturedObject(match, SeedFieldOrder))
           ELSE IF legacyMatch # <<>>
             THEN normalizeProgressionSettings(CapturedObject(legacyMatch, LegacyFieldOrder))
           ELSE IF legacyMatchShort # <<>>
             THEN normalizeProgressionSettings(
                    CapturedObject(legacyMatchShort, LegacyShortFieldOrder))
           ELSE NULL

\* Math.round(n * pct / 100) in IEEE doubles, for 0 <= n <= 60 and
\* 0 <= pct <= 100: the exact quotient rounded, ties upward, but for
\* 50 * 0.29, which the doubles compute as 14.499999999999998
RoundPercent(n, pct) ==
  IF n = 50 /\ pct = 29 THEN 14 ELSE (n * pct + 50) \div 100

progressionSettingsToBoardConfig(settings) ==
  LET normalized == normalizeProgressionSettings(ObjOf(settings))
      totalCells == ROWS * COLS
      gapCellsRaw == RoundPercent(totalCells, normalized.gapRate)
      maxBlankCells == Max(0, totalCells - MIN_TILES)
      maxBlankCellsSnapped == (maxBlankCells \div 4) * 4
      gapCells == Min(maxBlankCellsSnapped, Max(0, ((gapCellsRaw + 2) \div 4) * 4))
      clusters == IF gapCells = 0 THEN 0 ELSE normalized.gapClusters
      minClusterCells == IF clusters = 0 THEN 0 ELSE 4 + clusters * 2
      minTerminals == Max(4, RoundPercent(totalCells, normalized.terminalRate))
      maxTerminals == Min(totalCells, minTerminals + 6)
  IN  [blanks |-> [min |-> gapCells, max |-> gapCells, clusters |-> clusters,
                   minClusterCells |-> minClusterCells,
                   maxEmptyRowRun |-> normalized.emptyRowMax,
                   maxEmptyColRun |-> normalized.emptyColMax,
                   centerBias |-> normalized.centerBias],
       curveRatio |-> normalized.curveBias,
       minTerminals |-> minTerminals,
       maxTerminals |-> maxTerminals,
       maxStraightRunAllowed |-> normalized.straightRunMax,
       minTerminalDistance |-> normalized.terminalSpacing,
       maxTerminalClusterAllowed |-> 3]

(***************************************************************************)
(* Grid, directions and edge-sets                                          *)
(***************************************************************************)
Cells == 0..(ROWS * COLS - 1)

Cell(r, c) == r * COLS + c

RowOf(k) == k \div COLS

ColOf(k) == k % COLS

InGrid(r, c) == r >= 0 /\ r < ROWS /\ c >= 0 /\ c < COLS

oppositeDir(dir) == (dir + 2) % 4

StepRow(r, dir) == r + (IF dir = 2 THEN 1 ELSE IF dir = 0 THEN -1 ELSE 0)

StepCol(c, dir) == c + (IF dir = 1 THEN 1 ELSE IF dir = 3 THEN -1 ELSE 0)

\* whether the grid has a cell next to k in direction dir, and that cell
HasNeighbor(k, dir) == InGrid(StepRow(RowOf(k), dir), StepCol(ColOf(k), dir))

Neighbor(k, dir) == Cell(StepRow(RowOf(k), dir), StepCol(ColOf(k), dir))

\* edges.filter(Boolean).length
Degree(edges) ==
  (IF edges[1] THEN 1 ELSE 0) + (IF edges[2] THEN 1 ELSE 0)
    + (IF edges[3] THEN 1 ELSE 0) + (IF edges[4] THEN 1 ELSE 0)

OpenDirs(edges) == SelectSeq(<<0, 1, 2, 3>>, LAMBDA d : edges[d + 1])

\* edgesA[dir] = v; edgesB[oppositeDir(dir)] = v for cell k and the cell the
\* code addresses as its neighbour in direction dir; a key outside the grid is
\* a map entry nothing reads, so only the side of k is kept for it
\* fault: only the side of the cell itself is written
SetOwnSide(edgesByCell, k, dir, v) == [edgesByCell EXCEPT ![k][dir + 1] = v]

SetBoth(edgesByCell, k, dir, v) ==
  IF HasNeighbor(k, dir)
    THEN [edgesByCell EXCEPT ![k][dir + 1] = v,
                             ![Neighbor(k, dir)][oppositeDir(dir) + 1] = v]
    ELSE [edgesByCell EXCEPT ![k][dir + 1] = v]

isBoundaryCell(r, c) == r = 0 \/ c = 0 \/ r = ROWS - 1 \/ c = COLS - 1

mirrorCoord(r, c, mode) ==
  CASE mode = "v" -> <<r, COLS - 1 - c>>
    [] mode = "h" -> <<ROWS - 1 - r, c>>
    [] mode = "vh" -> <<ROWS - 1 - r, COLS - 1 - c>>
    [] OTHER -> <<r, c>>

mirrorDir(dir, mode) ==
  LET d1 == IF mode \in {"v", "vh"}
              THEN (IF dir = 1 THEN 3 ELSE IF dir = 3 THEN 1 ELSE dir)
              ELSE dir
  IN  IF mode \in {"h", "vh"}
        THEN (IF d1 = 0 THEN 2 ELSE IF d1 = 2 THEN 0 ELSE d1)
        ELSE d1

\* fault: the degree bound of the caller is not applied
canAddEdgeUnbounded(edgesByCell, a, b, dir, maxDegree) ==
  /\ ~edgesByCell[a][dir + 1]
  /\ Degree(edgesByCell[a]) + 1 <= 4
  /\ Degree(edgesByCell[b]) + 1 <= 4

canAddEdge(edgesByCell, a, b, dir, maxDegree) ==
  /\ ~edgesByCell[a][dir + 1]
  /\ Degree(edgesByCell[a]) + 1 <= maxDegree
  /\ Degree(edgesByCell[b]) + 1 <= maxDegree

addEdge(edgesByCell, a, dir) == SetBoth(edgesByCell, a, dir, TRUE)

Swap(list, i, j) == [list EXCEPT ![i] = list[j], ![j] = list[i]]

countCrosses(edgesByCell) == Cardinality({k \in Cells : Degree(edgesByCell[k]) = 4})

countTJunctions(edgesByCell) == Cardinality({k \in Cells : Degree(edgesByCell[k]) = 3})

maxCrosses == 1

maxTJunctions == Max(2, (ROWS * COLS) \div 6)

extraEdgesTarget == Max(1, (ROWS * COLS) \div 7)

\* the cells of a set in row-major order
SortedSeq(S) ==
  [i \in 1..Cardinality(S) |-> CHOOSE x \in S : Cardinality({y \in S : y < x}) = i - 1]

SetMax(S) == CHOOSE x \in S : \A y \in S : y <= x

(***************************************************************************)
(* generateSolvedEdges: helpers of the passes                              *)
(***************************************************************************)
\* the unvisited grid neighbours of (r, c), as <<cell, dir>>, in the order
\* N, E, S, W
\* fault: the cell above is offered to the walk even when it was visited
DfsNeighborsRevisiting(r, c, visited) ==
  (IF r > 0 THEN <<<<Cell(r - 1, c), 0>>>> ELSE <<>>)
    \o (IF c < COLS - 1 /\ Cell(r, c + 1) \notin visited
          THEN <<<<Cell(r, c + 1), 1>>>> ELSE <<>>)
    \o (IF r < ROWS - 1 /\ Cell(r + 1, c) \notin visited
          THEN <<<<Cell(r + 1, c), 2>>>> ELSE <<>>)
    \o (IF c > 0 /\ Cell(r, c - 1) \notin visited THEN <<<<Cell(r, c - 1), 3>>>> ELSE <<>>)

DfsNeighbors(r, c, visited) ==
  (IF r > 0 /\ Cell(r - 1, c) \notin visited THEN <<<<Cell(r - 1, c), 0>>>> ELSE <<>>)
    \o (IF c < COLS - 1 /\ Cell(r, c + 1) \notin visited
          THEN <<<<Cell(r, c + 1), 1>>>> ELSE <<>>)
    \o (IF r < ROWS - 1 /\ Cell(r + 1, c) \notin visited
          THEN <<<<Cell(r + 1, c), 2>>>> ELSE <<>>)
    \o (IF c > 0 /\ Cell(r, c - 1) \notin visited THEN <<<<Cell(r, c - 1), 3>>>> ELSE <<>>)

\* the candidate pairs <<r1, c1, r2, c2>> of the cycle pass for the cells
\* lo..hi, in the order built; the range is halved to keep the nesting flat
RECURSIVE CandidatesBetween(_, _)
CandidatesBetween(lo, hi) ==
  IF lo > hi THEN <<>>
  ELSE IF lo = hi
    THEN LET r == RowOf(lo)
             c == ColOf(lo)
         IN  (IF r < ROWS - 1 THEN <<<<r, c, r + 1, c>>>> ELSE <<>>)
               \o (IF c < COLS - 1 THEN <<<<r, c, r, c + 1>>>> ELSE <<>>)
  ELSE CandidatesBetween(lo, (lo + hi) \div 2)
         \o CandidatesBetween(((lo + hi) \div 2) + 1, hi)

CandidatesFrom(k) == CandidatesBetween(k, ROWS * COLS - 1)

InitialCandidates == CandidatesFrom(0)

\* Fisher-Yates over list[i..] (1-based), one random() per position
RECURSIVE ShuffleFrom(_, _, _)
ShuffleFrom(list, i, t) ==
  IF i > Len(list) THEN [list |-> list, t |-> t]
  ELSE LET t1 == RandAdvance(t)
           swapIndex == i + RandInt(RandOut(t1), Len(list) - i + 1)
       IN  ShuffleFrom(Swap(list, i, swapIndex), i + 1, t1)

\* the loop over missingDirs of one promotion target
RECURSIVE PromoteDirs(_, _, _, _)
PromoteDirs(edgesByCell, k, missingDirs, i) ==
  IF i > Len(missingDirs) THEN edgesByCell
  ELSE LET dir == missingDirs[i]
           n == Neighbor(k, dir)
           neighborDegree == Degree(edgesByCell[n])
           linked == SetBoth(edgesByCell, k, dir, TRUE)
       IN  IF neighborDegree >= 4
             THEN PromoteDirs(edgesByCell, k, missingDirs, i + 1)
           ELSE IF neighborDegree = 3 /\ isBoundaryCell(RowOf(n), ColOf(n))
             THEN PromoteDirs(edgesByCell, k, missingDirs, i + 1)
           ELSE IF countCrosses(linked) > maxCrosses
             THEN PromoteDirs(edgesByCell, k, missingDirs, i + 1)
           ELSE linked

MirrorModes == <<"v", "h", "vh">>

\* the mirror pass for the map key k: step n = 3 * dir + (mode - 1) of its
\* twelve (dir, mode) pairs; a direction closed when it is visited is skipped
RECURSIVE MirrorFrom(_, _, _, _)
MirrorFrom(edgesByCell, t, k, n) ==
  IF n >= 12 THEN [edges |-> edgesByCell, t |-> t]
  ELSE LET dir == n \div 3
           mode == MirrorModes[(n % 3) + 1]
       IN  IF (n % 3) = 0 /\ ~edgesByCell[k][dir + 1]
             THEN MirrorFrom(edgesByCell, t, k, n + 3)
           ELSE LET t1 == RandAdvance(t)
                    m == mirrorCoord(RowOf(k), ColOf(k), mode)
                    mdir == mirrorDir(dir, mode)
                    nr == StepRow(m[1], mdir)
                    nc == StepCol(m[2], mdir)
                    a == Cell(m[1], m[2])
                IN  IF LessThan018(RandOut(t1))
                      THEN MirrorFrom(edgesByCell, t1, k, n + 1)
                    ELSE IF ~InGrid(nr, nc)
                      THEN MirrorFrom(edgesByCell, t1, k, n + 1)
                    ELSE IF canAddEdge(edgesByCell, a, Cell(nr, nc), mdir, 3)
                      THEN MirrorFrom(addEdge(edgesByCell, a, mdir), t1, k, n + 1)
                    ELSE MirrorFrom(edgesByCell, t1, k, n + 1)

\* the defensive pass over the cells from k on: a boundary cell of degree 4
\* drops one random side; the cells it passes over unchanged are skipped in
\* one step
RECURSIVE DefensiveFrom(_, _, _)
DefensiveFrom(edgesByCell, t, k) ==
  LET hit == {j \in k..(ROWS * COLS - 1) :
                isBoundaryCell(RowOf(j), ColOf(j)) /\ Degree(edgesByCell[j]) = 4}
  IN  IF hit = {} THEN [edges |-> edgesByCell, t |-> t]
      ELSE LET j == CHOOSE x \in hit : \A y \in hit : x <= y
               t1 == RandAdvance(t)
               dirs == OpenDirs(edgesByCell[j])
               dropDir == dirs[RandInt(RandOut(t1), Len(dirs)) + 1]
           IN  DefensiveFrom(SetBoth(edgesByCell, j, dropDir, FALSE), t1, j + 1)

\* the cells the stack traversal of isConnectedGraph visits
RECURSIVE ReachOpen(_, _, _)
ReachOpen(edgesByCell, frontier, visitedNodes) ==
  IF frontier = {} THEN visitedNodes
  ELSE LET next == UNION {{Neighbor(k, d) :
                             d \in {x \in Dirs : edgesByCell[k][x + 1] /\ HasNeighbor(k, x)}} :
                          k \in frontier}
           fresh == next \ visitedNodes
       IN  ReachOpen(edgesByCell, fresh, visitedNodes \cup fresh)

isConnectedGraph(edgesByCell) ==
  Cardinality(ReachOpen(edgesByCell, {0}, {0})) = ROWS * COLS

\* fault: the removal is committed without the connectivity test
canRemoveEdgeUnchecked(edgesByCell, k, dir) ==
  IF ~HasNeighbor(k, dir) THEN [ok |-> FALSE, edges |-> edgesByCell]
  ELSE IF ~edgesByCell[k][dir + 1] THEN [ok |-> FALSE, edges |-> edgesByCell]
  ELSE [ok |-> TRUE, edges |-> SetBoth(edgesByCell, k, dir, FALSE)]

\* canRemoveEdge(r, c, dir): whether the removal was committed, and the map
\* afterwards
canRemoveEdge(edgesByCell, k, dir) ==
  IF ~HasNeighbor(k, dir) THEN [ok |-> FALSE, edges |-> edgesByCell]
  ELSE IF ~edgesByCell[k][dir + 1] THEN [ok |-> FALSE, edges |-> edgesByCell]
  ELSE LET removed == SetBoth(edgesByCell, k, dir, FALSE)
       IN  IF isConnectedGraph(removed)
             THEN [ok |-> TRUE, edges |-> removed]
             ELSE [ok |-> FALSE, edges |-> SetBoth(removed, k, dir, TRUE)]

\* the inner loop over dirs[d..] of a removal pass: stops at the first
\* removal that is committed
RECURSIVE RemoveFirst(_, _, _, _)
RemoveFirst(edgesByCell, k, dirs, d) ==
  IF d > Len(dirs) THEN [ok |-> FALSE, edges |-> edgesByCell]
  ELSE LET res == canRemoveEdge(edgesByCell, k, dirs[d])
       IN  IF res.ok THEN res ELSE RemoveFirst(res.edges, k, dirs, d + 1)

\* the pass enforcing the cross cap, from position i of crossCells
RECURSIVE CrossPassFrom(_, _, _, _)
CrossPassFrom(edgesByCell, t, crossCells, i) ==
  IF i > Len(crossCells) \/ countCrosses(edgesByCell) <= maxCrosses
    THEN [edges |-> edgesByCell, t |-> t]
  ELSE LET t1 == RandAdvance(t)
           swapIndex == i + RandInt(RandOut(t1), Len(crossCells) - i + 1)
           cells == Swap(crossCells, i, swapIndex)
           res == RemoveFirst(edgesByCell, cells[i], <<0, 1, 2, 3>>, 1)
       IN  CrossPassFrom(res.edges, t1, cells, i + 1)

(***************************************************************************)
(* applySymmetricBlanks.  The inputs of this model carry centerBias 0, so  *)
(* biasStrength <= 0: pickWeightedIndex takes its uniform branch and the   *)
(* block guarded by biasStrength >= 0.4 is skipped.                        *)
(***************************************************************************)
gridRows == (ROWS + 1) \div 2

gridCols == (COLS + 1) \div 2

getSymmetricCells(r, c) ==
  LET pairs == <<Cell(r, c), Cell(ROWS - 1 - r, c), Cell(r, COLS - 1 - c),
                 Cell(ROWS - 1 - r, COLS - 1 - c)>>
      Dedup[i \in 0..4] ==
        IF i = 0 THEN <<>>
        ELSE IF \E j \in 1..(i - 1) : pairs[j] = pairs[i] THEN Dedup[i - 1]
        ELSE Append(Dedup[i - 1], pairs[i])
  IN  Dedup[4]

\* groups: the quadrant cells (r, c) whose symmetric set has four members
RECURSIVE GroupsFrom(_)
GroupsFrom(g) ==
  IF g >= gridRows * gridCols THEN <<>>
  ELSE LET r == g \div gridCols
           c == g % gridCols
           cells == getSymmetricCells(r, c)
       IN  (IF Len(cells) # 4 THEN <<>> ELSE <<[r |-> r, c |-> c, cells |-> cells]>>)
             \o GroupsFrom(g + 1)

groups == GroupsFrom(0)

totalGroups == Len(groups)

\* indexGrid[r][c], -1 where the cell has no group; indices are 0-based
indexGrid(r, c) ==
  IF \E i \in 1..totalGroups : groups[i].r = r /\ groups[i].c = c
    THEN (CHOOSE i \in 1..totalGroups : groups[i].r = r /\ groups[i].c = c) - 1
    ELSE -1

groupTarget(targetCells) ==
  Min(Max(0, totalGroups - 1), Max(1, (targetCells + 2) \div 4))

InSeq(list, x) == \E i \in 1..Len(list) : list[i] = x

\* the indices not in chosen, ascending
Available(chosen) == SelectSeq([i \in 1..totalGroups |-> i - 1], LAMBDA idx : ~InSeq(chosen, idx))

\* pickWeightedIndex with biasStrength <= 0: the index (or -1) and the
\* generator afterwards
pickWeightedIndex(available, t) ==
  IF Len(available) = 0 THEN [idx |-> -1, t |-> t]
  ELSE LET t1 == RandAdvance(t)
       IN  [idx |-> available[RandInt(RandOut(t1), Len(available)) + 1], t |-> t1]

neighborIndices(group) ==
  LET at(dr, dc) ==
        IF group.r + dr >= 0 /\ group.r + dr < gridRows
             /\ group.c + dc >= 0 /\ group.c + dc < gridCols
             /\ indexGrid(group.r + dr, group.c + dc) >= 0
          THEN <<indexGrid(group.r + dr, group.c + dc)>>
          ELSE <<>>
  IN  at(1, 0) \o at(-1, 0) \o at(0, 1) \o at(0, -1)

\* the loop seeding the clusters, from iteration i
RECURSIVE SeedClusters(_, _, _, _, _)
SeedClusters(chosen, clusters, t, i, finalClusterTotal) ==
  IF i >= finalClusterTotal THEN [chosen |-> chosen, clusters |-> clusters, t |-> t]
  ELSE LET pick == pickWeightedIndex(Available(chosen), t)
       IN  IF pick.idx >= 0
             THEN SeedClusters(Append(chosen, pick.idx), Append(clusters, <<pick.idx>>),
                               pick.t, i + 1, finalClusterTotal)
             ELSE SeedClusters(chosen, clusters, pick.t, i + 1, finalClusterTotal)

\* the loop growing the clusters until groupTarget groups are chosen; one
\* iteration draws the cluster, its anchor, and then a free neighbour of the
\* anchor or, when it has none, any free group
RECURSIVE GrowClusters(_, _, _, _)
GrowAdd(chosen, clusters, t, target, clusterIndex, nextIndex) ==
  GrowClusters(Append(chosen, nextIndex),
               [clusters EXCEPT ![clusterIndex] = Append(@, nextIndex)], t, target)

GrowPicked(chosen, clusters, target, clusterIndex, pick) ==
  IF pick.idx >= 0
    THEN GrowAdd(chosen, clusters, pick.t, target, clusterIndex, pick.idx)
    ELSE [chosen |-> chosen, t |-> pick.t]

GrowNear(chosen, clusters, t, target, clusterIndex, neighbors) ==
  IF Len(neighbors) > 0
    THEN GrowAdd(chosen, clusters, RandSkip(t, 3), target, clusterIndex,
                 neighbors[RandInt(Rand(t, 3), Len(neighbors)) + 1])
    ELSE GrowPicked(chosen, clusters, target, clusterIndex,
                    pickWeightedIndex(Available(chosen), RandSkip(t, 2)))

GrowAnchor(cluster, t) == cluster[RandInt(Rand(t, 2), Len(cluster)) + 1]

GrowFrom(chosen, clusters, t, target, clusterIndex) ==
  GrowNear(chosen, clusters, t, target, clusterIndex,
           SelectSeq(neighborIndices(groups[GrowAnchor(clusters[clusterIndex], t) + 1]),
                     LAMBDA idx : ~InSeq(chosen, idx)))

GrowClusters(chosen, clusters, t, target) ==
  IF Len(chosen) >= target THEN [chosen |-> chosen, t |-> t]
  ELSE GrowFrom(chosen, clusters, t, target, RandInt(Rand(t, 1), Len(clusters)) + 1)

selectGroupsInClusters(clusterCountValue, minClusterCells, target, t) ==
  LET minGroups == Max(1, (minClusterCells + 3) \div 4)
      clusterTotal == Max(1, IF clusterCountValue = 0 THEN 1 ELSE clusterCountValue)
      maxClusterTotal == Max(1, target \div minGroups)
      finalClusterTotal == Min(clusterTotal, maxClusterTotal)
      seeded == SeedClusters(<<>>, <<>>, t, 0, finalClusterTotal)
  IN  GrowClusters(seeded.chosen, seeded.clusters, seeded.t, target)

\* the blank cells of the chosen groups, in insertion order
RECURSIVE BlanksOf(_, _, _, _)
BlanksOf(grouped, i, blanks, target) ==
  IF i > Len(grouped) \/ Len(blanks) >= target * 4 THEN blanks
  ELSE BlanksOf(grouped, i + 1, blanks \o groups[grouped[i] + 1].cells, target)

SeqSet(list) == {list[i] : i \in 1..Len(list)}

\* the cells the queue traversal of isConnected visits
RECURSIVE ReachFilled(_, _, _)
ReachFilled(blankSet, frontier, visited) ==
  IF frontier = {} THEN visited
  ELSE LET next == UNION {{Neighbor(k, d) : d \in {x \in Dirs : HasNeighbor(k, x)}} :
                          k \in frontier}
           fresh == (next \ blankSet) \ visited
       IN  ReachFilled(blankSet, fresh, visited \cup fresh)

isConnected(blankSet) ==
  LET total == ROWS * COLS - Cardinality(blankSet)
      filled == Cells \ blankSet
  IN  IF total <= 0 \/ filled = {} THEN TRUE
      ELSE LET start == CHOOSE k \in filled : \A j \in filled : k <= j
           IN  Cardinality(ReachFilled(blankSet, {start}, {start})) = total

\* the scan of maxEmptyRun from outer index o with the running counters
RECURSIVE EmptyRunFrom(_, _, _, _, _)
EmptyRunFrom(blankSet, axis, o, run, maxRun) ==
  LET outer == IF axis = "row" THEN ROWS ELSE COLS
      inner == IF axis = "row" THEN COLS ELSE ROWS
  IN  IF o >= outer THEN maxRun
      ELSE LET empty == \A i \in 0..(inner - 1) :
                          (IF axis = "row" THEN Cell(o, i) ELSE Cell(i, o)) \in blankSet
           IN  IF empty
                 THEN EmptyRunFrom(blankSet, axis, o + 1, run + 1, Max(maxRun, run + 1))
                 ELSE EmptyRunFrom(blankSet, axis, o + 1, 0, maxRun)

maxEmptyRun(blankSet, axis) == EmptyRunFrom(blankSet, axis, 0, 0, 0)

\* the loop severing the blanks, from position i of the insertion order
RECURSIVE SeverDirs(_, _, _)
SeverDirs(edgesByCell, k, dir) ==
  IF dir > 3 THEN edgesByCell
  ELSE IF ~edgesByCell[k][dir + 1] THEN SeverDirs(edgesByCell, k, dir + 1)
  ELSE SeverDirs(SetBoth(edgesByCell, k, dir, FALSE), k, dir + 1)

\* fault: the blank cells are emptied, the sides of their neighbours are kept
RECURSIVE SeverFromOwn(_, _, _)
SeverFromOwn(edgesByCell, blanks, i) ==
  IF i > Len(blanks) THEN edgesByCell
  ELSE SeverFromOwn([edgesByCell EXCEPT ![blanks[i]] = NoEdges], blanks, i + 1)

RECURSIVE SeverFrom(_, _, _)
SeverFrom(edgesByCell, blanks, i) ==
  IF i > Len(blanks) THEN edgesByCell
  ELSE IF Degree(edgesByCell[blanks[i]]) = 0 THEN SeverFrom(edgesByCell, blanks, i + 1)
  ELSE SeverFrom([SeverDirs(edgesByCell, blanks[i], 0) EXCEPT ![blanks[i]] = NoEdges],
                 blanks, i + 1)

(***************************************************************************)
(* Validators of a carved layout                                           *)
(***************************************************************************)
TerminalCells(edgesByCell) == {k \in Cells : Degree(edgesByCell[k]) = 1}

countTerminals(edgesByCell) == Cardinality(TerminalCells(edgesByCell))

IsCurveEdges(edges) ==
  Degree(edges) = 2 /\ ~((edges[1] /\ edges[3]) \/ (edges[2] /\ edges[4]))

countCurves(edgesByCell) ==
  [curves |-> Cardinality({k \in Cells : IsCurveEdges(edgesByCell[k])}),
   nonBlank |-> Cardinality({k \in Cells : Degree(edgesByCell[k]) # 0})]

\* the cells the queue traversal of isEdgeGraphConnected visits
RECURSIVE ReachNonBlank(_, _, _)
ReachNonBlank(edgesByCell, frontier, visited) ==
  IF frontier = {} THEN visited
  ELSE LET next == UNION {{Neighbor(k, d) :
                             d \in {x \in Dirs : /\ edgesByCell[k][x + 1]
                                                 /\ HasNeighbor(k, x)
                                                 /\ Degree(edgesByCell[Neighbor(k, x)]) # 0}} :
                          k \in frontier}
           fresh == next \ visited
       IN  ReachNonBlank(edgesByCell, fresh, visited \cup fresh)

isEdgeGraphConnected(edgesByCell) ==
  LET nonBlank == {k \in Cells : Degree(edgesByCell[k]) > 0}
  IN  IF Cardinality(nonBlank) <= 1 THEN TRUE
      ELSE LET start == CHOOSE k \in nonBlank : \A j \in nonBlank : k <= j
           IN  Cardinality(ReachNonBlank(edgesByCell, {start}, {start}))
                 = Cardinality(nonBlank)

hasCloseTerminals(edgesByCell, minDistance) ==
  LET terminals == TerminalCells(edgesByCell)
  IN  \E a \in terminals : \E b \in terminals :
        /\ a < b
        /\ Abs(RowOf(a) - RowOf(b)) + Abs(ColOf(a) - ColOf(b)) < minDistance

\* the terminals the queue traversal of maxTerminalCluster gathers
RECURSIVE ReachTerminals(_, _, _)
ReachTerminals(terminals, frontier, visited) ==
  IF frontier = {} THEN visited
  ELSE LET next == UNION {{Neighbor(k, d) : d \in {x \in Dirs : HasNeighbor(k, x)}} :
                          k \in frontier}
           fresh == (next \cap terminals) \ visited
       IN  ReachTerminals(terminals, fresh, visited \cup fresh)

RECURSIVE ClusterScan(_, _, _)
ClusterScan(terminals, remaining, maxSize) ==
  IF remaining = {} THEN maxSize
  ELSE LET first == CHOOSE k \in remaining : \A j \in remaining : k <= j
           cluster == ReachTerminals(terminals, {first}, {first})
       IN  ClusterScan(terminals, remaining \ cluster, Max(maxSize, Cardinality(cluster)))

maxTerminalCluster(edgesByCell) ==
  ClusterScan(TerminalCells(edgesByCell), TerminalCells(edgesByCell), 0)

isVertical(edges) == edges[1] /\ edges[3] /\ ~edges[2] /\ ~edges[4]

isHorizontal(edges) == edges[2] /\ edges[4] /\ ~edges[1] /\ ~edges[3]

\* one line of maxStraightRun: column `line` scanned down the rows when
\* vertical, row `line` scanned along the columns otherwise
RECURSIVE RunFrom(_, _, _, _, _, _)
RunFrom(edgesByCell, vertical, line, i, run, maxRun) ==
  IF i >= (IF vertical THEN ROWS ELSE COLS) THEN maxRun
  ELSE LET edges == edgesByCell[IF vertical THEN Cell(i, line) ELSE Cell(line, i)]
           on == IF vertical THEN isVertical(edges) ELSE isHorizontal(edges)
       IN  IF on
             THEN RunFrom(edgesByCell, vertical, line, i + 1, run + 1, Max(maxRun, run + 1))
             ELSE RunFrom(edgesByCell, vertical, line, i + 1, 0, maxRun)

\* maxRun is only ever raised, so the running maximum over all lines is the
\* largest of the maxima of the single lines
maxStraightRun(edgesByCell) ==
  SetMax({RunFrom(edgesByCell, TRUE, c, 0, 0, 0) : c \in 0..(COLS - 1)}
           \cup {RunFrom(edgesByCell, FALSE, r, 0, 0, 0) : r \in 0..(ROWS - 1)})

(***************************************************************************)
(* Tiles and the connectivity engine.  A tile is a record with the fields  *)
(* of the source; the tile array is a sequence and the maps keyed by       *)
(* tile.id are functions over the positions 1..Len(tiles) of the array.    *)
(***************************************************************************)
RECURSIVE rotateEdges(_, _)
rotateEdges(edges, rotation) ==
  IF rotation <= 0 THEN edges
  ELSE rotateEdges(<<edges[4], edges[1], edges[2], edges[3]>>, rotation - 1)

\* fault: the open sides read off the angle the tile is drawn at
getEdgesByDegrees(tile) ==
  IF tile.type \notin DOMAIN BASE_EDGES THEN NoEdges
  ELSE IF tile.type = "crossCurve" THEN <<TRUE, TRUE, TRUE, TRUE>>
  ELSE rotateEdges(BASE_EDGES[tile.type], (tile.rotationDegrees \div 90) % 4)

getEdges(tile) ==
  IF tile.type \notin DOMAIN BASE_EDGES THEN NoEdges
  ELSE IF tile.type = "crossCurve" THEN <<TRUE, TRUE, TRUE, TRUE>>
  ELSE rotateEdges(BASE_EDGES[tile.type], tile.rotation)

edgesEqual(a, b) == a[1] = b[1] /\ a[2] = b[2] /\ a[3] = b[3] /\ a[4] = b[4]

\* the first (type, rotation) of candidates whose edges equal `edges`
RECURSIVE PickFrom(_, _, _)
PickFrom(candidates, edges, n) ==
  IF n >= 4 * Len(candidates) THEN [type |-> "blank", rotation |-> 0]
  ELSE LET type == candidates[(n \div 4) + 1]
           rotation == n % 4
           rotated == IF type = "crossCurve" THEN BASE_EDGES[type]
                      ELSE rotateEdges(BASE_EDGES[type], rotation)
       IN  IF edgesEqual(rotated, edges) THEN [type |-> type, rotation |-> rotation]
           ELSE PickFrom(candidates, edges, n + 1)

\* fault: the type that fits some rotation, the rotation itself dropped
pickTypeForEdgesUnturned(edges) ==
  [type |-> PickFrom(CASE Degree(edges) = 0 -> <<"blank">>
                       [] Degree(edges) = 1 -> <<"terminal">>
                       [] Degree(edges) = 2 ->
                            IF (edges[1] /\ edges[3]) \/ (edges[2] /\ edges[4])
                              THEN <<"straight">> ELSE <<"curveLeft", "curveRight">>
                       [] Degree(edges) = 3 -> <<"tJunction">>
                       [] OTHER -> <<"crossCurve">>, edges, 0).type,
   rotation |-> 0]

\* fault: only the vertical pair of sides counts as straight
pickTypeForEdgesVertical(edges) ==
  LET degree == Degree(edges)
      isStraight == edges[1] /\ edges[3]
      candidates == CASE degree = 0 -> <<"blank">>
                      [] degree = 1 -> <<"terminal">>
                      [] degree = 2 -> IF isStraight THEN <<"straight">>
                                       ELSE <<"curveLeft", "curveRight">>
                      [] degree = 3 -> <<"tJunction">>
                      [] OTHER -> <<"crossCurve">>
  IN  PickFrom(candidates, edges, 0)

pickTypeForEdges(edges) ==
  LET degree == Degree(edges)
      isStraight == (edges[1] /\ edges[3]) \/ (edges[2] /\ edges[4])
      candidates == CASE degree = 0 -> <<"blank">>
                      [] degree = 1 -> <<"terminal">>
                      [] degree = 2 -> IF isStraight THEN <<"straight">>
                                       ELSE <<"curveLeft", "curveRight">>
                      [] degree = 3 -> <<"tJunction">>
                      [] OTHER -> <<"crossCurve">>
  IN  PickFrom(candidates, edges, 0)

IdOf(r, c) == ToString(r) \o "-" \o ToString(c)

\* byPos.get(`${r}-${c}`): the position in the array of the last tile at
\* (r, c), 0 when there is none
byPos(tiles, r, c) ==
  LET at == {i \in 1..Len(tiles) : tiles[i].r = r /\ tiles[i].c = c}
  IN  IF at = {} THEN 0 ELSE CHOOSE i \in at : \A j \in at : j <= i

NeighborTile(tiles, i, dir) ==
  byPos(tiles, StepRow(tiles[i].r, dir), StepCol(tiles[i].c, dir))

\* fault: the neighbour is asked for the same side, not the opposite one
computeConnectionsUnopposed(tiles) ==
  [i \in 1..Len(tiles) |->
     [p \in 1..4 |->
        LET n == NeighborTile(tiles, i, p - 1)
        IN  /\ getEdges(tiles[i])[p]
            /\ n # 0
            /\ getEdges(tiles[n])[p]]]

computeConnections(tiles) ==
  [i \in 1..Len(tiles) |->
     [p \in 1..4 |->
        LET n == NeighborTile(tiles, i, p - 1)
        IN  /\ getEdges(tiles[i])[p]
            /\ n # 0
            /\ getEdges(tiles[n])[oppositeDir(p - 1) + 1]]]

getInternalPortPairs(tile, edges) ==
  IF tile.type = "crossCurve"
    THEN (IF (tile.rotation % 2) = 0 THEN <<<<0, 3>>, <<1, 2>>>> ELSE <<<<0, 1>>, <<2, 3>>>>)
  ELSE LET dirs == OpenDirs(edges)
       IN  IF Len(dirs) = 2 THEN <<<<dirs[1], dirs[2]>>>>
           ELSE IF Len(dirs) = 3
             THEN <<<<dirs[1], dirs[2]>>, <<dirs[2], dirs[3]>>, <<dirs[1], dirs[3]>>>>
           ELSE <<>>

\* A port `${tile.id}:${dir}` is the pair <<i, dir>> of the tile's position
\* and the side.  portAdj.get(port): the internal partners on the same tile
\* and the port across a connected side, each present only when both ports
\* were registered (their sides are open)
PortAdj(tiles, edges, nb, connections, port) ==
  LET i == port[1]
      d == port[2]
      pairs == getInternalPortPairs(tiles[i], edges[i])
      partners == {pairs[j][2] : j \in {x \in 1..Len(pairs) : pairs[x][1] = d}}
                    \cup {pairs[j][1] : j \in {x \in 1..Len(pairs) : pairs[x][2] = d}}
      n == nb[i][d + 1]
      od == oppositeDir(d)
  IN  {<<i, b>> : b \in {x \in partners : edges[i][x + 1]}}
        \cup (IF /\ n # 0
                 /\ edges[n][od + 1]
                 /\ (connections[i][d + 1] \/ (connections[n][od + 1] /\ nb[n][od + 1] = i))
                THEN {<<n, od>>} ELSE {})

\* the ports the stack traversal gathers into one component
RECURSIVE ReachPorts(_, _, _, _, _, _)
ReachPorts(tiles, edges, nb, connections, frontier, visitedPorts) ==
  IF frontier = {} THEN visitedPorts
  ELSE LET next == UNION {PortAdj(tiles, edges, nb, connections, port) : port \in frontier}
           fresh == next \ visitedPorts
       IN  ReachPorts(tiles, edges, nb, connections, fresh, visitedPorts \cup fresh)

\* fault: a side counts as complete as soon as it is connected itself
computeCompleteDirsLocal(tiles, connections) ==
  [i \in 1..Len(tiles) |-> [p \in 1..4 |-> connections[i][p]]]

\* completePorts: the ports of the components holding no dangling port.
\* Adjacency is symmetric, so a component holds a dangling port exactly
\* when its ports are reachable from one
computeCompleteDirs(tiles, connections) ==
  LET edges == [i \in 1..Len(tiles) |-> getEdges(tiles[i])]
      nb == [i \in 1..Len(tiles) |-> [p \in 1..4 |-> NeighborTile(tiles, i, p - 1)]]
      allPorts == {port \in (1..Len(tiles)) \X Dirs : edges[port[1]][port[2] + 1]}
      danglingPorts == {port \in allPorts : ~connections[port[1]][port[2] + 1]}
      completePorts ==
        allPorts \ ReachPorts(tiles, edges, nb, connections, danglingPorts, danglingPorts)
  IN  [i \in 1..Len(tiles) |-> [p \in 1..4 |-> <<i, p - 1>> \in completePorts]]

\* fault: one side that is closed or complete is enough for a tile
solvedAnySide(tiles, completeDirs) ==
  \A i \in 1..Len(tiles) : \E p \in 1..4 : ~getEdges(tiles[i])[p] \/ completeDirs[i][p]

\* the `solved` memo of App
solved(tiles, completeDirs) ==
  \A i \in 1..Len(tiles) : \A p \in 1..4 : ~getEdges(tiles[i])[p] \/ completeDirs[i][p]

(***************************************************************************)
(* makeBoard: the configuration it derives from its arguments              *)
(***************************************************************************)
difficultyConfig ==
  [easy |-> [min |-> 13, max |-> 20, clusters |-> 3, minClusterCells |-> 6,
             maxEmptyRowRun |-> 2, maxEmptyColRun |-> 2],
   medium |-> [min |-> 4, max |-> 12, clusters |-> 2, minClusterCells |-> 6,
               maxEmptyRowRun |-> 2, maxEmptyColRun |-> 2],
   hard |-> [min |-> 0, max |-> 0, clusters |-> 0, minClusterCells |-> 0,
             maxEmptyRowRun |-> 0, maxEmptyColRun |-> 0]]

\* curve ratios in percent
curveRatioByDifficulty == [easy |-> 32, medium |-> 28, hard |-> 24]

minTerminalsDefault == Max(6, (ROWS * COLS * 12) \div 100)

maxTerminalsDefault == Max(minTerminalsDefault + 2, (ROWS * COLS * 22) \div 100)

\* the text hashStringToInt walks over for seedText || "zen": a value that is
\* not a string has no length and is hashed as the empty text
SeedOrZen(seedText) ==
  IF Falsy(seedText) THEN <<122, 101, 110>>
  ELSE IF seedText[1] = "str" THEN seedText[2]
  ELSE <<>>

\* fault: a known difficulty decides the blanks even when the seed parses
makeBoardConfigByDifficulty(seedText, difficulty) ==
  LET progressionSettings == parseProgressionSeed(seedText)
      fromSeed == progressionSettings # NULL
      progressionConfig == progressionSettingsToBoardConfig(progressionSettings)
      baseConfig == IF difficulty \in DOMAIN difficultyConfig
                      THEN difficultyConfig[difficulty]
                    ELSE IF fromSeed THEN progressionConfig.blanks
                    ELSE difficultyConfig.medium
      blankMin == Max(0, baseConfig.min)
  IN  [fromSeed |-> fromSeed,
       blankMin |-> blankMin,
       blankMax |-> Max(blankMin, baseConfig.max),
       clusters |-> baseConfig.clusters,
       minClusterCells |-> baseConfig.minClusterCells,
       maxEmptyRowRun |-> baseConfig.maxEmptyRowRun,
       maxEmptyColRun |-> baseConfig.maxEmptyColRun,
       centerBias |-> IF "centerBias" \in DOMAIN baseConfig THEN baseConfig.centerBias ELSE 0,
       curveRatio |-> IF fromSeed THEN progressionConfig.curveRatio
                      ELSE IF difficulty \in DOMAIN curveRatioByDifficulty
                        THEN curveRatioByDifficulty[difficulty]
                      ELSE 28,
       minTerminals |-> IF fromSeed THEN progressionConfig.minTerminals
                        ELSE minTerminalsDefault,
       maxTerminals |-> IF fromSeed THEN progressionConfig.maxTerminals
                        ELSE maxTerminalsDefault,
       maxStraightRunAllowed |-> IF fromSeed THEN progressionConfig.maxStraightRunAllowed
                                 ELSE 4,
       minTerminalDistance |-> IF fromSeed THEN progressionConfig.minTerminalDistance ELSE 2,
       maxTerminalClusterAllowed |-> IF fromSeed
                                       THEN progressionConfig.maxTerminalClusterAllowed
                                       ELSE 3]

\* the constants makeBoard fixes before its first carve: baseConfig and the
\* thresholds of the validation, from the parsed seed or else the difficulty
makeBoardConfig(seedText, difficulty) ==
  LET progressionSettings == parseProgressionSeed(seedText)
      fromSeed == progressionSettings # NULL
      progressionConfig == progressionSettingsToBoardConfig(progressionSettings)
      baseConfig == IF fromSeed THEN progressionConfig.blanks
                    ELSE IF difficulty \in DOMAIN difficultyConfig
                      THEN difficultyConfig[difficulty]
                    ELSE difficultyConfig.medium
      blankMin == Max(0, baseConfig.min)
  IN  [fromSeed |-> fromSeed,
       blankMin |-> blankMin,
       blankMax |-> Max(blankMin, baseConfig.max),
       clusters |-> baseConfig.clusters,
       minClusterCells |-> baseConfig.minClusterCells,
       maxEmptyRowRun |-> baseConfig.maxEmptyRowRun,
       maxEmptyColRun |-> baseConfig.maxEmptyColRun,
       centerBias |-> IF "centerBias" \in DOMAIN baseConfig THEN baseConfig.centerBias ELSE 0,
       curveRatio |-> IF fromSeed THEN progressionConfig.curveRatio
                      ELSE IF difficulty \in DOMAIN curveRatioByDifficulty
                        THEN curveRatioByDifficulty[difficulty]
                      ELSE 28,
       minTerminals |-> IF fromSeed THEN progressionConfig.minTerminals
                        ELSE minTerminalsDefault,
       maxTerminals |-> IF fromSeed THEN progressionConfig.maxTerminals
                        ELSE maxTerminalsDefault,
       maxStraightRunAllowed |-> IF fromSeed THEN progressionConfig.maxStraightRunAllowed
                                 ELSE 4,
       minTerminalDistance |-> IF fromSeed THEN progressionConfig.minTerminalDistance ELSE 2,
       maxTerminalClusterAllowed |-> IF fromSeed
                                       THEN progressionConfig.maxTerminalClusterAllowed
                                       ELSE 3]

\* fault: the validation without the test of connectedness
PassesValidationUnconnected(edgesByCell, config) ==
  LET terminals == countTerminals(edgesByCell)
      counted == countCurves(edgesByCell)
      minCurves == IF counted.nonBlank = 0 THEN 0
                   ELSE Max(8, RoundPercent(counted.nonBlank, config.curveRatio))
  IN  /\ terminals >= config.minTerminals
      /\ terminals <= config.maxTerminals
      /\ maxStraightRun(edgesByCell) <= config.maxStraightRunAllowed
      /\ ~hasCloseTerminals(edgesByCell, config.minTerminalDistance)
      /\ maxTerminalCluster(edgesByCell) <= config.maxTerminalClusterAllowed
      /\ counted.curves >= minCurves

\* the check that ends the carve loop
PassesValidation(edgesByCell, config) ==
  LET terminals == countTerminals(edgesByCell)
      counted == countCurves(edgesByCell)
      minCurves == IF counted.nonBlank = 0 THEN 0
                   ELSE Max(8, RoundPercent(counted.nonBlank, config.curveRatio))
  IN  /\ terminals >= config.minTerminals
      /\ terminals <= config.maxTerminals
      /\ maxStraightRun(edgesByCell) <= config.maxStraightRunAllowed
      /\ ~hasCloseTerminals(edgesByCell, config.minTerminalDistance)
      /\ maxTerminalCluster(edgesByCell) <= config.maxTerminalClusterAllowed
      /\ isEdgeGraphConnected(edgesByCell)
      /\ counted.curves >= minCurves

\* the caps of the three retry loops
CarveAttemptCap == 60

BlankAttemptCap == 40

ScrambleAttemptCap == 20

\* the tile array makeBoard materialises from the carved edges
MaterializeTiles(edgesByCell) ==
  [i \in 1..(ROWS * COLS) |->
     LET r == RowOf(i - 1)
         c == ColOf(i - 1)
         picked == pickTypeForEdges(edgesByCell[i - 1])
     IN  [id |-> IdOf(r, c), r |-> r, c |-> c, type |-> picked.type,
          rotation |-> picked.rotation,
          rotationDegrees |-> picked.rotation * 90,
          targetRotation |-> picked.rotation]]

AnyComplete(completeDirs) ==
  \E i \in DOMAIN completeDirs : \E p \in 1..4 : completeDirs[i][p]

\* scrambleWithoutSolved: one draw per tile in array order
scrambleWithoutSolved(tiles, t) ==
  LET next == [i \in 1..Len(tiles) |->
                 LET offset == RandInt(Rand(t, i), 4)
                     rotationScrambled == (tiles[i].targetRotation + offset) % 4
                 IN  [tiles[i] EXCEPT !.rotation = rotationScrambled,
                                      !.rotationDegrees = rotationScrambled * 90]]
      connections == computeConnections(next)
      completeDirs == computeCompleteDirs(next, connections)
  IN  [next |-> next, hasSolved |-> AnyComplete(completeDirs),
       t |-> RandSkip(t, Len(tiles))]

(***************************************************************************)
(* State                                                                   *)
(***************************************************************************)
VARIABLES
  input,        \* the arguments of the makeBoard call: seedText, difficulty
  pc,           \* where the call stands
  config,       \* the constants makeBoard derived from its arguments
  seed,         \* hashStringToInt(seedText || "zen")
  t,            \* the state of the generator `rand`
  attemptSeed,  \* the counter of the carve loop
  edgesByCell,  \* the edge map of the current carve
  keys,         \* the keys of edgesByCell in insertion order
  loc,          \* the locals of the running pass
  tiles,        \* the solved tile array of makeBoard
  attempt,      \* the counter of the scramble loop
  result,       \* the latest scrambleWithoutSolved() result
  board,        \* App: the tiles state
  connections,  \* App: computeConnections(tiles)
  completeDirs, \* App: computeCompleteDirs(tiles, connections)
  rotations,    \* the number of rotateTile calls since the board was dealt
  dealt,        \* the boards dealt so far, with the arguments of their calls
  settingsIn,   \* the argument given to the progression helpers
  normalized,   \* normalizeProgressionSettings(settingsIn)
  seedOut,      \* buildProgressionSeed(settingsIn)
  parsed,       \* parseProgressionSeed(seedOut)
  parsedInput,  \* parseProgressionSeed(input.seedText)
  listIn,       \* the argument given to normalizeLevelList
  levelsOut,    \* normalizeLevelList(listIn), App
  bakedOut,     \* normalizeLevelList(listIn), the bake plugin of the dev server
  hasKey,          \* analytics.js: VITE_POSTHOG_KEY is set in the build
  storedConsent,   \* localStorage["zen_analytics_consent"]
  consentCalls,    \* the arguments of the setAnalyticsConsent calls so far
  analyticsConsent,\* App: the analyticsConsent state
  posthogInstance, \* analytics.js: the module is loaded (not null)
  isReady,         \* analytics.js
  initPromise,     \* analytics.js: null, or the promise pending or settled
  awaiting,        \* the handleAnalyticsConsent calls suspended at their await
  capturing,       \* PostHog: opted in to capturing
  captured         \* PostHog: the events captured, with the consent at that time

genVars == <<config, seed, t, attemptSeed, edgesByCell, keys, loc, tiles, attempt, result>>

appVars == <<board, connections, completeDirs, rotations>>

levelVars == <<listIn, levelsOut, bakedOut>>

analyticsVars == <<hasKey, storedConsent, consentCalls, analyticsConsent, posthogInstance,
                   isReady, initPromise, awaiting, capturing, captured>>

helperVars == <<settingsIn, normalized, seedOut, parsed, parsedInput, levelVars, analyticsVars>>

vars == <<input, pc, genVars, appVars, dealt, helperVars>>

\* the value of a record variable, and of a tuple variable, not yet assigned
None == [none |-> TRUE]

Unset == <<>>

EmptyEdges == [k \in Cells |-> NoEdges]

(***************************************************************************)
(* makeBoard, one action per loop iteration or straight-line stretch       *)
(***************************************************************************)
\* lines 496-524: the hash, the parsed seed, the thresholds
MakeBoardBegin ==
  /\ pc = "start"
  /\ seed' = hashStringToInt(SeedOrZen(input.seedText))
  /\ config' = makeBoardConfig(input.seedText, input.difficulty)
  /\ attemptSeed' = 0
  /\ pc' = "attempt"
  /\ UNCHANGED <<input, t, edgesByCell, keys, loc, tiles, attempt, result,
                 appVars, dealt, helperVars>>

\* fault: the attempts reseeded one apart, not 97 apart
BeginAttemptUnspaced ==
  /\ pc = "attempt"
  /\ attemptSeed < CarveAttemptCap
  /\ t' = mulberry32(Add32(seed, Word(attemptSeed)))
  /\ edgesByCell' = EmptyEdges
  /\ keys' = <<0>>
  /\ loc' = [stack |-> <<<<0, -1>>>>, visited |-> {0}]
  /\ pc' = "dfs"
  /\ UNCHANGED <<input, config, seed, attemptSeed, tiles, attempt, result,
                 appVars, dealt, helperVars>>

\* the head of the carve loop: the generator is re-created and the depth
\* first walk starts at 0-0
BeginAttempt ==
  /\ pc = "attempt"
  /\ attemptSeed < CarveAttemptCap
  /\ t' = mulberry32(Add32(seed, Word(attemptSeed * 97)))
  /\ edgesByCell' = EmptyEdges
  /\ keys' = <<0>>
  /\ loc' = [stack |-> <<<<0, -1>>>>, visited |-> {0}]
  /\ pc' = "dfs"
  /\ UNCHANGED <<input, config, seed, attemptSeed, tiles, attempt, result,
                 appVars, dealt, helperVars>>

\* one iteration of the walk: pop at a dead end, else extend to a neighbour,
\* a turn being preferred
DfsStep ==
  /\ pc = "dfs"
  /\ Len(loc.stack) > 0
  /\ LET top == loc.stack[Len(loc.stack)]
         k == top[1]
         prevDir == top[2]
         neighbors == DfsNeighbors(RowOf(k), ColOf(k), loc.visited)
         turnNeighbors ==
           IF prevDir = -1 THEN <<>>
           ELSE SelectSeq(neighbors,
                          LAMBDA n : n[2] \in {(prevDir + 1) % 4, (prevDir + 3) % 4})
         t1 == RandAdvance(t)
         t2 == RandAdvance(t1)
         tryTurn == Len(turnNeighbors) > 0
         takeTurn == tryTurn /\ LessThan085(RandOut(t1))
         tEnd == IF tryTurn THEN t2 ELSE t1
         nextNeighbor ==
           IF takeTurn THEN turnNeighbors[RandInt(RandOut(t2), Len(turnNeighbors)) + 1]
           ELSE neighbors[RandInt(RandOut(tEnd), Len(neighbors)) + 1]
     IN  IF Len(neighbors) = 0
           THEN /\ loc' = [loc EXCEPT !.stack = SubSeq(loc.stack, 1, Len(loc.stack) - 1)]
                /\ UNCHANGED <<t, edgesByCell, keys>>
           ELSE /\ t' = tEnd
                /\ edgesByCell' = SetBoth(edgesByCell, k, nextNeighbor[2], TRUE)
                /\ keys' = Append(keys, nextNeighbor[1])
                /\ loc' = [stack |-> Append(loc.stack, <<nextNeighbor[1], nextNeighbor[2]>>),
                           visited |-> loc.visited \cup {nextNeighbor[1]}]
  /\ UNCHANGED <<input, pc, config, seed, attemptSeed, tiles, attempt, result,
                 appVars, dealt, helperVars>>

\* the walk is over: the candidate pairs of the cycle pass are listed
CycleSetup ==
  /\ pc = "dfs"
  /\ Len(loc.stack) = 0
  /\ loc' = [candidates |-> InitialCandidates, i |-> 1, added |-> 0]
  /\ pc' = "inject"
  /\ UNCHANGED <<input, config, seed, t, attemptSeed, edgesByCell, keys, tiles,
                 attempt, result, appVars, dealt, helperVars>>

\* one iteration of the cycle pass: shuffle step, then the edge is added and
\* kept unless that leaves more than maxCrosses crosses
InjectStep ==
  /\ pc = "inject"
  /\ loc.i <= Len(loc.candidates)
  /\ loc.added < extraEdgesTarget
  /\ LET t1 == RandAdvance(t)
         swapIndex == loc.i + RandInt(RandOut(t1), Len(loc.candidates) - loc.i + 1)
         candidates == Swap(loc.candidates, loc.i, swapIndex)
         pair == candidates[loc.i]
         a == Cell(pair[1], pair[2])
         b == Cell(pair[3], pair[4])
         dir == IF pair[3] > pair[1] THEN 2 ELSE IF pair[3] < pair[1] THEN 0
                ELSE IF pair[4] > pair[2] THEN 1 ELSE 3
         degreeA == Degree(edgesByCell[a])
         degreeB == Degree(edgesByCell[b])
         skipped == \/ edgesByCell[a][dir + 1]
                    \/ degreeA >= 4 \/ degreeB >= 4
                    \/ (degreeA + 1 = 4 /\ isBoundaryCell(pair[1], pair[2]))
                    \/ (degreeB + 1 = 4 /\ isBoundaryCell(pair[3], pair[4]))
         linked == SetBoth(edgesByCell, a, dir, TRUE)
         kept == ~skipped /\ countCrosses(linked) <= maxCrosses
     IN  /\ t' = t1
         /\ edgesByCell' = IF kept THEN linked ELSE edgesByCell
         /\ loc' = [candidates |-> candidates, i |-> loc.i + 1,
                    added |-> IF kept THEN loc.added + 1 ELSE loc.added]
  /\ UNCHANGED <<input, pc, config, seed, attemptSeed, keys, tiles, attempt, result,
                 appVars, dealt, helperVars>>

\* the interior cells of degree 3, shuffled
PromoteSetup ==
  /\ pc = "inject"
  /\ ~(loc.i <= Len(loc.candidates) /\ loc.added < extraEdgesTarget)
  /\ LET promotionTargets ==
           SortedSeq({k \in Cells : /\ RowOf(k) >= 1 /\ RowOf(k) < ROWS - 1
                                    /\ ColOf(k) >= 1 /\ ColOf(k) < COLS - 1
                                    /\ Degree(edgesByCell[k]) = 3})
         shuffled == ShuffleFrom(promotionTargets, 1, t)
     IN  /\ t' = shuffled.t
         /\ loc' = [targets |-> shuffled.list, j |-> 1]
  /\ pc' = "promote"
  /\ UNCHANGED <<input, config, seed, attemptSeed, edgesByCell, keys, tiles, attempt,
                 result, appVars, dealt, helperVars>>

\* one promotion target: its first missing side that can be opened is opened
PromoteStep ==
  /\ pc = "promote"
  /\ loc.j <= Len(loc.targets)
  /\ countCrosses(edgesByCell) < maxCrosses
  /\ LET k == loc.targets[loc.j]
         missingDirs == SelectSeq(<<0, 1, 2, 3>>, LAMBDA dir : ~edgesByCell[k][dir + 1])
     IN  edgesByCell' = PromoteDirs(edgesByCell, k, missingDirs, 1)
  /\ loc' = [loc EXCEPT !.j = loc.j + 1]
  /\ UNCHANGED <<input, pc, config, seed, t, attemptSeed, keys, tiles, attempt, result,
                 appVars, dealt, helperVars>>

MirrorSetup ==
  /\ pc = "promote"
  /\ ~(loc.j <= Len(loc.targets) /\ countCrosses(edgesByCell) < maxCrosses)
  /\ loc' = [idx |-> 1]
  /\ pc' = "mirror"
  /\ UNCHANGED <<input, config, seed, t, attemptSeed, edgesByCell, keys, tiles,
                 attempt, result, appVars, dealt, helperVars>>

\* the mirror pass for one key of the map
MirrorStep ==
  /\ pc = "mirror"
  /\ loc.idx <= Len(keys)
  /\ LET mirrored == MirrorFrom(edgesByCell, t, keys[loc.idx], 0)
     IN  /\ edgesByCell' = mirrored.edges
         /\ t' = mirrored.t
  /\ loc' = [idx |-> loc.idx + 1]
  /\ UNCHANGED <<input, pc, config, seed, attemptSeed, keys, tiles, attempt, result,
                 appVars, dealt, helperVars>>

\* the defensive pass, the enforcement of the cross cap, and the list of
\* degree-3 cells when there are more than maxTJunctions
EnforceCaps ==
  /\ pc = "mirror"
  /\ loc.idx > Len(keys)
  /\ LET defended == DefensiveFrom(edgesByCell, t, 0)
         crossCells == SortedSeq({k \in Cells : Degree(defended.edges[k]) = 4})
         capped == IF countCrosses(defended.edges) > maxCrosses
                     THEN CrossPassFrom(defended.edges, defended.t, crossCells, 1)
                     ELSE defended
         tCells == IF countTJunctions(capped.edges) > maxTJunctions
                     THEN SortedSeq({k \in Cells : Degree(capped.edges[k]) = 3})
                     ELSE <<>>
     IN  /\ edgesByCell' = capped.edges
         /\ t' = capped.t
         /\ loc' = [tCells |-> tCells, i |-> 1]
  /\ pc' = "treduce"
  /\ UNCHANGED <<input, config, seed, attemptSeed, keys, tiles, attempt, result,
                 appVars, dealt, helperVars>>

\* one iteration of the T reduction: shuffle step, then the first open side
\* of the cell whose removal keeps the graph connected is removed
TReduceStep ==
  /\ pc = "treduce"
  /\ loc.i <= Len(loc.tCells)
  /\ countTJunctions(edgesByCell) > maxTJunctions
  /\ LET t1 == RandAdvance(t)
         swapIndex == loc.i + RandInt(RandOut(t1), Len(loc.tCells) - loc.i + 1)
         tCells == Swap(loc.tCells, loc.i, swapIndex)
         k == tCells[loc.i]
         removal == RemoveFirst(edgesByCell, k, OpenDirs(edgesByCell[k]), 1)
     IN  /\ t' = t1
         /\ edgesByCell' = removal.edges
         /\ loc' = [tCells |-> tCells, i |-> loc.i + 1]
  /\ UNCHANGED <<input, pc, config, seed, attemptSeed, keys, tiles, attempt, result,
                 appVars, dealt, helperVars>>

\* generateSolvedEdges returns; with blanks configured the target count is
\* drawn and applySymmetricBlanks is entered
CarveDone ==
  /\ pc = "treduce"
  /\ ~(loc.i <= Len(loc.tCells) /\ countTJunctions(edgesByCell) > maxTJunctions)
  /\ LET t1 == RandAdvance(t)
         targetCount == config.blankMin
                          + RandInt(RandOut(t1), config.blankMax - config.blankMin + 1)
     IN  IF config.blankMax > 0
           THEN /\ t' = t1
                /\ IF targetCount <= 0
                     THEN pc' = "validate" /\ loc' = None
                     ELSE /\ pc' = "blanks"
                          /\ loc' = [groupTarget |-> groupTarget(targetCount),
                                     attempts |-> 0, blanks |-> <<>>, accepted |-> FALSE]
           ELSE pc' = "validate" /\ loc' = None /\ t' = t
  /\ UNCHANGED <<input, config, seed, attemptSeed, edgesByCell, keys, tiles, attempt,
                 result, appVars, dealt, helperVars>>

\* fault: the test that ends the blank loop without the flood fill
BlanksAcceptedUnconnected(blankSet, target, cfg) ==
  /\ Cardinality(blankSet) = target * 4
  /\ maxEmptyRun(blankSet, "row") <= cfg.maxEmptyRowRun
  /\ maxEmptyRun(blankSet, "col") <= cfg.maxEmptyColRun

\* the test that ends the blank loop
BlanksAccepted(blankSet, target, cfg) ==
  /\ Cardinality(blankSet) = target * 4
  /\ isConnected(blankSet)
  /\ maxEmptyRun(blankSet, "row") <= cfg.maxEmptyRowRun
  /\ maxEmptyRun(blankSet, "col") <= cfg.maxEmptyColRun

\* the body of the blank loop for the groups `grouped` that were selected
BlankTrial(grouped, target, cfg, tNext) ==
  [blanks |-> BlanksOf(grouped, 1, <<>>, target),
   ok |-> BlanksAccepted(SeqSet(BlanksOf(grouped, 1, <<>>, target)), target, cfg),
   t |-> tNext]

BlankTrialOf(selected, target, cfg) == BlankTrial(selected.chosen, target, cfg, selected.t)

BlankAttemptWith(trial) ==
  /\ t' = trial.t
  /\ loc' = [loc EXCEPT !.blanks = trial.blanks,
                        !.accepted = trial.ok,
                        !.attempts = IF trial.ok THEN loc.attempts ELSE loc.attempts + 1]

\* one iteration of the blank loop: groups are selected and the resulting
\* blank set is accepted or counted as a failed attempt
BlankAttempt ==
  /\ pc = "blanks"
  /\ ~loc.accepted
  /\ loc.attempts < BlankAttemptCap
  /\ BlankAttemptWith(
       BlankTrialOf(selectGroupsInClusters(config.clusters, config.minClusterCells,
                                           loc.groupTarget, t),
                    loc.groupTarget, config))
  /\ UNCHANGED <<input, pc, config, seed, attemptSeed, edgesByCell, keys, tiles, attempt,
                 result, appVars, dealt, helperVars>>

\* the blank loop is over: the last blank set is cut out of the edge map
SeverBlanks ==
  /\ pc = "blanks"
  /\ loc.accepted \/ loc.attempts >= BlankAttemptCap
  /\ edgesByCell' = SeverFrom(edgesByCell, loc.blanks, 1)
  /\ loc' = None
  /\ pc' = "validate"
  /\ UNCHANGED <<input, config, seed, t, attemptSeed, keys, tiles, attempt, result,
                 appVars, dealt, helperVars>>

\* fault: a failed validation that does not count the attempt
ValidateUncounted ==
  /\ pc = "validate"
  /\ IF PassesValidation(edgesByCell, config) THEN pc' = "materialize" ELSE pc' = "attempt"
  /\ UNCHANGED <<input, config, seed, t, attemptSeed, edgesByCell, keys, loc, tiles,
                 attempt, result, appVars, dealt, helperVars>>

\* the validation that ends the carve loop or counts a failed attempt
Validate ==
  /\ pc = "validate"
  /\ IF PassesValidation(edgesByCell, config)
       THEN pc' = "materialize" /\ UNCHANGED attemptSeed
       ELSE pc' = "attempt" /\ attemptSeed' = attemptSeed + 1
  /\ UNCHANGED <<input, config, seed, t, edgesByCell, keys, loc, tiles, attempt, result,
                 appVars, dealt, helperVars>>

\* result = scrambleWithoutSolved(), the generator advanced by its draws
ScrambleWith(scrambled) ==
  /\ result' = [next |-> scrambled.next, hasSolved |-> scrambled.hasSolved]
  /\ t' = scrambled.t

\* fault: the scramble drawing from a generator that the boards dealt before
\* have advanced, a source of randomness outside the arguments
MaterializeCounting ==
  /\ IF pc = "attempt" THEN ~(attemptSeed < CarveAttemptCap) ELSE pc = "materialize"
  /\ tiles' = MaterializeTiles(edgesByCell)
  /\ attempt' = 0
  /\ ScrambleWith(scrambleWithoutSolved(tiles', RandSkip(t, Len(dealt))))
  /\ pc' = "scramble"
  /\ UNCHANGED <<input, config, seed, attemptSeed, edgesByCell, keys, loc,
                 appVars, dealt, helperVars>>

\* the carve loop is left, by break or by its cap: the tiles are built from
\* the current edge map and scrambled a first time
Materialize ==
  /\ IF pc = "attempt" THEN ~(attemptSeed < CarveAttemptCap) ELSE pc = "materialize"
  /\ tiles' = MaterializeTiles(edgesByCell)
  /\ attempt' = 0
  /\ ScrambleWith(scrambleWithoutSolved(tiles', t))
  /\ pc' = "scramble"
  /\ UNCHANGED <<input, config, seed, attemptSeed, edgesByCell, keys, loc,
                 appVars, dealt, helperVars>>

\* one iteration of the scramble loop
ScrambleRetry ==
  /\ pc = "scramble"
  /\ result.hasSolved
  /\ attempt < ScrambleAttemptCap
  /\ attempt' = attempt + 1
  /\ ScrambleWith(scrambleWithoutSolved(tiles, t))
  /\ UNCHANGED <<input, pc, config, seed, attemptSeed, edgesByCell, keys, loc, tiles,
                 appVars, dealt, helperVars>>

\* fault: the first scramble returned whether or not it left a complete side
ReturnUnchecked ==
  /\ pc = "scramble"
  /\ board' = result.next
  /\ connections' = computeConnections(board')
  /\ completeDirs' = computeCompleteDirs(board', connections')
  /\ rotations' = 0
  /\ dealt' = Append(dealt, [input |-> input, tiles |-> result.next])
  /\ pc' = "done"
  /\ UNCHANGED <<input, genVars, helperVars>>

\* makeBoard returns result.next; App stores it and derives the connection
\* maps from it
Return ==
  /\ pc = "scramble"
  /\ ~(result.hasSolved /\ attempt < ScrambleAttemptCap)
  /\ board' = result.next
  /\ connections' = computeConnections(board')
  /\ completeDirs' = computeCompleteDirs(board', connections')
  /\ rotations' = 0
  /\ dealt' = Append(dealt, [input |-> input, tiles |-> result.next])
  /\ pc' = "done"
  /\ UNCHANGED <<input, genVars, helperVars>>

(***************************************************************************)
(* App: rotateTile and regenerate                                          *)
(***************************************************************************)
\* the rotateTile calls explored on a dealt board
MaxRotations == 4

\* the tiles rotateTile is called on: array indices down the diagonal
MaxDiagonal == 2

RotatableIndices == {d * (COLS + 1) : d \in 0..MaxDiagonal}

\* fault: the rotation counted on without wrapping at four
rotateTileUnwrapped(index) ==
  /\ pc = "done"
  /\ rotations < MaxRotations
  /\ LET tile == board[index + 1]
         next == [board EXCEPT ![index + 1] =
                    [tile EXCEPT !.rotation = tile.rotation + 1,
                                 !.rotationDegrees = tile.rotationDegrees + 90]]
         nextConnections == computeConnections(next)
     IN  /\ board' = next
         /\ connections' = nextConnections
         /\ completeDirs' = computeCompleteDirs(next, nextConnections)
  /\ rotations' = rotations + 1
  /\ UNCHANGED <<input, pc, genVars, dealt, helperVars>>

\* fault: rotationDegrees is set from the new rotation, not advanced by 90
rotateTileSnapped(index) ==
  /\ pc = "done"
  /\ rotations < MaxRotations
  /\ LET tile == board[index + 1]
         next == [board EXCEPT ![index + 1] =
                    [tile EXCEPT !.rotation = (tile.rotation + 1) % 4,
                                 !.rotationDegrees = ((tile.rotation + 1) % 4) * 90]]
         nextConnections == computeConnections(next)
     IN  /\ board' = next
         /\ connections' = nextConnections
         /\ completeDirs' = computeCompleteDirs(next, nextConnections)
  /\ rotations' = rotations + 1
  /\ UNCHANGED <<input, pc, genVars, dealt, helperVars>>

\* fault: the rotation stops at three instead of wrapping to zero
rotateTileSaturating(index) ==
  /\ pc = "done"
  /\ rotations < MaxRotations
  /\ LET tile == board[index + 1]
         prevRotationDegrees == tile.rotationDegrees
         next == [board EXCEPT ![index + 1] =
                    [tile EXCEPT !.rotation = Min(3, tile.rotation + 1),
                                 !.rotationDegrees = prevRotationDegrees + 90]]
         nextConnections == computeConnections(next)
     IN  /\ board' = next
         /\ connections' = nextConnections
         /\ completeDirs' = computeCompleteDirs(next, nextConnections)
  /\ rotations' = rotations + 1
  /\ UNCHANGED <<input, pc, genVars, dealt, helperVars>>

\* rotateTile(index): the tile is replaced by a copy turned one step, the
\* connection maps are recomputed from the new array
rotateTile(index) ==
  /\ pc = "done"
  /\ rotations < MaxRotations
  /\ LET tile == board[index + 1]
         prevRotationDegrees == tile.rotationDegrees
         next == [board EXCEPT ![index + 1] =
                    [tile EXCEPT !.rotation = (tile.rotation + 1) % 4,
                                 !.rotationDegrees = prevRotationDegrees + 90]]
         nextConnections == computeConnections(next)
     IN  /\ board' = next
         /\ connections' = nextConnections
         /\ completeDirs' = computeCompleteDirs(next, nextConnections)
  /\ rotations' = rotations + 1
  /\ UNCHANGED <<input, pc, genVars, dealt, helperVars>>

\* the makeBoard calls explored in one run
MaxDeals == 2

\* regenerate(nextSeed, nextDifficulty): a new makeBoard call starts; its
\* locals are fresh, the App keeps showing the old board until it returns
regenerate(nextInput) ==
  /\ pc = "done"
  /\ Len(dealt) < MaxDeals
  /\ input' = nextInput
  /\ pc' = "start"
  /\ config' = None /\ seed' = Unset /\ t' = Unset /\ attemptSeed' = 0
  /\ edgesByCell' = EmptyEdges /\ keys' = <<>> /\ loc' = None
  /\ tiles' = <<>> /\ attempt' = 0 /\ result' = None
  /\ UNCHANGED <<appVars, dealt, helperVars>>

(***************************************************************************)
(* The progression helpers, applied to one argument                        *)
(***************************************************************************)
Normalize ==
  /\ normalized = None
  /\ normalized' = normalizeProgressionSettings(settingsIn)
  /\ UNCHANGED <<input, pc, genVars, appVars, dealt, settingsIn, seedOut, parsed,
                 parsedInput, levelVars, analyticsVars>>

Build ==
  /\ seedOut = Unset
  /\ seedOut' = Str(buildProgressionSeed(settingsIn))
  /\ UNCHANGED <<input, pc, genVars, appVars, dealt, settingsIn, normalized, parsed,
                 parsedInput, levelVars, analyticsVars>>

Parse ==
  /\ seedOut # Unset
  /\ parsed = None
  /\ parsed' = parseProgressionSeed(seedOut)
  /\ UNCHANGED <<input, pc, genVars, appVars, dealt, settingsIn, normalized, seedOut,
                 parsedInput, levelVars, analyticsVars>>

\* parseProgressionSeed applied to the text a board is asked for
ParseSeedText ==
  /\ parsedInput = None
  /\ parsedInput' = parseProgressionSeed(input.seedText)
  /\ UNCHANGED <<input, pc, genVars, appVars, dealt, settingsIn, normalized, seedOut,
                 parsed, levelVars, analyticsVars>>

(***************************************************************************)
(* Inputs and specifications                                               *)
(***************************************************************************)
Call(chars, difficulty) == [seedText |-> Str(Text(chars)), difficulty |-> difficulty]

\* makeBoard calls carried through to the dealt board
Inputs ==
  { Call(<<"z", "o">>, "hard"),
    Call(<<"n", "o", "x">>, "medium"),
    Call(<<"z", "a", "n">>, "hard"),
    Call(<<"e", "e", "a">>, "medium"),
    Call(<<"t", "p", "r", "l">>, "hard"),
    Call(<<"P", "8", "-", "0", "-", "2", "8", "-", "1", "8", "-", "4", "-", "2",
           "-", "2", "-", "2", "-", "0", "-", "3">>, "medium"),
    Call(<<"P", "6", "0", "-", "1", "-", "2", "0", "-", "1", "2", "-", "6", "-", "1",
           "-", "0", "-", "2", "-", "0", "-", "7">>, "medium"),
    Call(<<"P", "1", "8", "-", "2", "-", "2", "8", "-", "1", "8", "-", "3", "3", "5",
           "-", "2", "-", "2", "-", "2", "-", "0", "-", "8">>, "medium") }

GenInit ==
  /\ pc = "start"
  /\ config = None /\ seed = Unset /\ t = Unset /\ attemptSeed = 0
  /\ edgesByCell = EmptyEdges /\ keys = <<>> /\ loc = None
  /\ tiles = <<>> /\ attempt = 0 /\ result = None
  /\ board = <<>> /\ connections = <<>> /\ completeDirs = <<>> /\ rotations = 0
  /\ dealt = <<>>

\* analytics.js as loaded in a build without a key and no choice stored
AnalyticsIdle ==
  /\ hasKey = FALSE /\ storedConsent = "null" /\ consentCalls = <<>>
  /\ analyticsConsent = "null"
  /\ posthogInstance = FALSE /\ isReady = FALSE /\ initPromise = "null"
  /\ awaiting = 0 /\ capturing = FALSE /\ captured = <<>>

HelpersIdle ==
  /\ settingsIn = Undefined
  /\ normalized = None /\ seedOut = Unset /\ parsed = None /\ parsedInput = None
  /\ listIn = Undefined /\ levelsOut = Unset /\ bakedOut = Unset
  /\ AnalyticsIdle

Init ==
  /\ input \in Inputs
  /\ GenInit
  /\ HelpersIdle

MakeBoard ==
  \/ MakeBoardBegin
  \/ BeginAttempt
  \/ DfsStep
  \/ CycleSetup
  \/ InjectStep
  \/ PromoteSetup
  \/ PromoteStep
  \/ MirrorSetup
  \/ MirrorStep
  \/ EnforceCaps
  \/ TReduceStep
  \/ CarveDone
  \/ BlankAttempt
  \/ SeverBlanks
  \/ Validate
  \/ Materialize
  \/ ScrambleRetry
  \/ Return

Next ==
  \/ MakeBoard
  \/ \E index \in RotatableIndices : rotateTile(index)

Spec == Init /\ [][Next]_vars

(***************************************************************************)
(* Arguments for the progression helpers and for the head of makeBoard     *)
(***************************************************************************)
\* { [key]: value }
Only(key, value) == <<"obj", [k \in {key} |-> value]>>

\* { ...DEFAULT_PROGRESSION_SETTINGS, [key]: value }
With(key, value) ==
  <<"obj", [k \in KeySet |-> IF k = key THEN value
                             ELSE Num(DEFAULT_PROGRESSION_SETTINGS[k])]>>

EmptyObject == <<"obj", <<>>>>

\* the values a settings field is given: numbers below, inside, at the ends
\* of and above its range, whole and fractional, and values that are no number
FieldValues(key) ==
  LET range == PROGRESSION_SETTINGS_RANGES[key]
  IN  {Tenths(x) : x \in {-100, -5, 4, 5, range.min * 10 - 6, range.min * 10 + 4,
                          range.max * 10 - 5, range.max * 10 + 4, range.max * 10 + 5,
                          9990}}
        \cup {NaN, PosInfinity, NegInfinity, JsNull, Undefined, Bool(TRUE), Bool(FALSE),
              Str(<<>>), Str(Text(<<"1", "2">>)), Str(Text(<<"n", "o", "p", "e">>))}

\* the settings of the round-trip test
RoundTripSettings ==
  [gapRate |-> 10, gapClusters |-> 1, curveBias |-> 30, terminalRate |-> 16,
   straightRunMax |-> 5, terminalSpacing |-> 3, emptyRowMax |-> 1, emptyColMax |-> 2,
   centerBias |-> 40, variant |-> 7]

SettingsInputs ==
  {Undefined, JsNull, Num(0), Num(5), Bool(TRUE), Bool(FALSE), Str(<<>>),
   Str(Text(<<"n", "o", "p", "e">>)), EmptyObject,
   ObjOf(DEFAULT_PROGRESSION_SETTINGS), ObjOf(RoundTripSettings),
   ObjOf([key \in KeySet |-> PROGRESSION_SETTINGS_RANGES[key].min]),
   ObjOf([key \in KeySet |-> PROGRESSION_SETTINGS_RANGES[key].max]),
   <<"obj", [gapRate |-> Num(-10), curveBias |-> Num(999), terminalSpacing |-> Num(12)]>>}
    \cup UNION {{Only(key, value) : value \in FieldValues(key)} : key \in KeySet}
    \cup UNION {{With(key, value) : value \in FieldValues(key)} : key \in KeySet}

RECURSIVE Dashed(_, _)
\* the numbers written in decimal with "-" between them
Dashed(numbers, i) ==
  IF i > Len(numbers) THEN <<>>
  ELSE (IF i = 1 THEN <<>> ELSE <<45>>) \o DecStr(numbers[i]) \o Dashed(numbers, i + 1)

\* field values as seed texts carry them: the defaults, the values of the
\* round-trip test, values above every range
SeedNumbers ==
  {<<18, 2, 28, 18, 4, 2, 2, 2, 0, 0, 1, 2>>,
   <<10, 1, 30, 16, 5, 3, 1, 2, 40, 7, 1, 2>>,
   <<200, 9, 99, 99, 9, 9, 9, 9, 999, 99, 1, 2>>}

\* texts "P<n>-<n>-...": of every length from one number to twelve, with
\* either case of the letter
PatternTexts ==
  {<<letter>> \o Dashed(SubSeq(numbers, 1, n), 1) :
     letter \in {80, 112}, numbers \in SeedNumbers, n \in 1..12}

\* a text with one character put in front of position i
Inserted(text, i, ch) == SubSeq(text, 1, i - 1) \o <<ch>> \o SubSeq(text, i, Len(text))

\* the texts of six, nine and ten numbers changed in one place: another
\* letter, no letter, a space at either end, a dash at the end, a dash, a
\* point, a letter or a zero inside the first number, a dash near the end
EditedTexts ==
  UNION {{<<81>> \o Tail(text), Tail(text), Append(text, 32), <<32>> \o text,
          Append(text, 45), Inserted(text, 2, 45), Inserted(text, 3, 46),
          Inserted(text, 2, 120), Inserted(text, 2, 48),
          Inserted(text, Len(text) - 2, 45)} :
         text \in {<<letter>> \o Dashed(SubSeq(numbers, 1, n), 1) :
                     letter \in {80}, numbers \in SeedNumbers, n \in {6, 9, 10}}}

OtherTexts ==
  {<<>>, <<80>>, Text(<<"n", "o", "p", "e">>), Text(<<"z", "e", "n">>),
   Text(<<"z", "o">>), Text(<<"1", "8">>)}

\* the values makeBoard and parseProgressionSeed are given as seedText
SeedTextInputs ==
  {Str(text) : text \in PatternTexts \cup EditedTexts \cup OtherTexts}
    \cup {Undefined, JsNull, NaN, Num(0), Num(18), Bool(TRUE), Bool(FALSE), EmptyObject}

DifficultyInputs == {"easy", "medium", "hard", "zen"}

\* either a makeBoard call with some seed text, or the helpers applied to
\* some settings
InitSeed ==
  /\ GenInit
  /\ normalized = None /\ seedOut = Unset /\ parsed = None /\ parsedInput = None
  /\ listIn = Undefined /\ levelsOut = Unset /\ bakedOut = Unset
  /\ AnalyticsIdle
  /\ \/ /\ input \in [seedText : SeedTextInputs, difficulty : DifficultyInputs]
        /\ settingsIn = Undefined
     \/ /\ input = [seedText |-> Undefined, difficulty |-> "medium"]
        /\ settingsIn \in SettingsInputs

NextSeed ==
  \/ Normalize
  \/ Build
  \/ Parse
  \/ ParseSeedText
  \/ MakeBoardBegin

SpecSeed == InitSeed /\ [][NextSeed]_vars

(***************************************************************************)
(* The seed text round trip and the malformed seed texts                   *)
(***************************************************************************)
\* a settings object whose ten fields are numbers inside their ranges
InRange(settings) ==
  /\ settings[1] = "obj"
  /\ \A key \in KeySet :
       /\ key \in DOMAIN settings[2]
       /\ settings[2][key][1] = "num"
       /\ settings[2][key][2] >= PROGRESSION_SETTINGS_RANGES[key].min * 10
       /\ settings[2][key][2] <= PROGRESSION_SETTINGS_RANGES[key].max * 10

\* C2: for every settings object whose ten fields lie inside their ranges,
\* parseProgressionSeed(buildProgressionSeed(settings)) is an object equal,
\* field by field, to normalizeProgressionSettings(settings).
C2_RoundTrip ==
  (parsed # None /\ normalized # None /\ InRange(settingsIn))
    => /\ parsed # NULL
       /\ \A key \in KeySet : parsed[key] = normalized[key]

\* the round trip of settings that hold a fraction and fields that differ
\* from one another and from the defaults
C2_Witness ==
  /\ parsed # None /\ normalized # None /\ InRange(settingsIn)
  /\ \/ settingsIn = With("gapRate", Tenths(955)) /\ parsed.gapRate = 96
     \/ settingsIn = ObjOf(RoundTripSettings) /\ parsed.straightRunMax = 5
                                              /\ parsed.terminalSpacing = 3

\* the three accepted formats, read off the patterns character by character:
\* the letter P in either case, then n runs of digits with single dashes
\* between them and nothing else, n being 10, 9 or 6
AcceptedFormat(v) ==
  /\ v[1] = "str"
  /\ Len(v[2]) >= 2
  /\ v[2][1] \in {80, 112}
  /\ \A i \in 2..Len(v[2]) : IsDigit(v[2][i]) \/ v[2][i] = 45
  /\ v[2][2] # 45 /\ v[2][Len(v[2])] # 45
  /\ \A i \in 2..(Len(v[2]) - 1) : ~(v[2][i] = 45 /\ v[2][i + 1] = 45)
  /\ Cardinality({i \in 2..Len(v[2]) : v[2][i] = 45}) \in {9, 8, 5}

\* the configuration of a named difficulty, as makeBoard spells it out
NamedDifficulty(difficulty) ==
  LET named == IF difficulty \in {"easy", "hard"} THEN difficulty ELSE "medium"
  IN  [fromSeed |-> FALSE,
       blankMin |-> CASE named = "easy" -> 13 [] named = "medium" -> 4 [] OTHER -> 0,
       blankMax |-> CASE named = "easy" -> 20 [] named = "medium" -> 12 [] OTHER -> 0,
       clusters |-> CASE named = "easy" -> 3 [] named = "medium" -> 2 [] OTHER -> 0,
       minClusterCells |-> IF named = "hard" THEN 0 ELSE 6,
       maxEmptyRowRun |-> IF named = "hard" THEN 0 ELSE 2,
       maxEmptyColRun |-> IF named = "hard" THEN 0 ELSE 2,
       centerBias |-> 0,
       curveRatio |-> CASE named = "easy" -> 32 [] named = "medium" -> 28 [] OTHER -> 24,
       minTerminals |-> 7, maxTerminals |-> 13, maxStraightRunAllowed |-> 4,
       minTerminalDistance |-> 2, maxTerminalClusterAllowed |-> 3]

\* C3: for every seed text that matches none of the three accepted formats
\* (the empty text, values that are no string and texts such as "nope"
\* included) parseProgressionSeed returns null, and makeBoard called with it
\* goes on with the configuration of the named difficulty.
C3_NullAndFallback ==
  ~AcceptedFormat(input.seedText)
    => /\ parsedInput # None => parsedInput = NULL
       /\ pc # "start" => config = NamedDifficulty(input.difficulty)

C3_Witness ==
  /\ input = [seedText |-> Str(Text(<<"n", "o", "p", "e">>)), difficulty |-> "easy"]
  /\ ~AcceptedFormat(input.seedText)
  /\ parsedInput = NULL
  /\ pc = "attempt" /\ ~config.fromSeed /\ config.blankMin = 13

(***************************************************************************)
(* The normalised settings                                                 *)
(***************************************************************************)
\* a string of one or more digits
DigitText(v) ==
  v[1] = "str" /\ Len(v[2]) > 0 /\ \A i \in 1..Len(v[2]) : IsDigit(v[2][i])

\* the nearest integer to a number given in tenths, inside [min, max]
RoundedInto(x, min, max) ==
  LET nearest == CHOOSE n \in (x \div 10)..((x \div 10) + 1) :
                   2 * (n * 10 - x) <= 10 /\ 2 * (x - n * 10) < 10
  IN  IF nearest < min THEN min ELSE IF nearest > max THEN max ELSE nearest

\* C4: normalizeProgressionSettings returns ten integers inside their
\* ranges; a field that is a number is rounded to the nearest integer and
\* clamped; a field that is missing or is no finite number (undefined, null,
\* NaN, an infinity, a boolean, a text that is no number) takes its
\* default; an argument that is empty or no object gives the defaults.
\* Nothing is asked of a field that is a text of digits.
C4_FieldsNormalized ==
  normalized # None
    => /\ \A key \in KeySet :
            /\ normalized[key] \in Int
            /\ normalized[key] >= PROGRESSION_SETTINGS_RANGES[key].min
            /\ normalized[key] <= PROGRESSION_SETTINGS_RANGES[key].max
       /\ settingsIn[1] # "obj" => normalized = DEFAULT_PROGRESSION_SETTINGS
       /\ settingsIn = EmptyObject => normalized = DEFAULT_PROGRESSION_SETTINGS
       /\ settingsIn[1] = "obj" =>
            \A key \in KeySet :
              LET present == key \in DOMAIN settingsIn[2]
                  range == PROGRESSION_SETTINGS_RANGES[key]
              IN  IF present /\ settingsIn[2][key][1] = "num"
                    THEN normalized[key] =
                           RoundedInto(settingsIn[2][key][2], range.min, range.max)
                  ELSE IF present /\ DigitText(settingsIn[2][key]) THEN TRUE
                  ELSE normalized[key] = DEFAULT_PROGRESSION_SETTINGS[key]

(***************************************************************************)
(* Boards dealt again                                                      *)
(***************************************************************************)
\* the calls that are repeated
RegenInputs ==
  { Call(<<"z", "a", "n">>, "hard"),
    Call(<<"n", "o", "x">>, "medium") }

InitRegen ==
  /\ input \in RegenInputs
  /\ GenInit
  /\ HelpersIdle

NextRegen ==
  \/ MakeBoard
  \/ \E nextInput \in RegenInputs : regenerate(nextInput)

SpecRegen == InitRegen /\ [][NextRegen]_vars

\* two tile arrays agree cell by cell in type, rotation and targetRotation
SameTiles(a, b) ==
  /\ Len(a) = Len(b)
  /\ \A k \in 1..Len(a) :
       /\ a[k].type = b[k].type
       /\ a[k].rotation = b[k].rotation
       /\ a[k].targetRotation = b[k].targetRotation

AtTarget(layout) ==
  [i \in 1..Len(layout) |-> [layout[i] EXCEPT !.rotation = layout[i].targetRotation]]

\* C5: on every board makeBoard returns, once every tile is turned to its
\* targetRotation and the connection maps are recomputed, every open side of
\* every tile is connected and complete: no port dangles, the board is solved.
C5_TargetIsSolved ==
  pc = "done" =>
    LET atTarget == AtTarget(board)
        targetConnections == computeConnections(atTarget)
        targetComplete == computeCompleteDirs(atTarget, targetConnections)
    IN  /\ \A i \in 1..Len(atTarget) : \A p \in 1..4 :
             getEdges(atTarget[i])[p] => targetConnections[i][p] /\ targetComplete[i][p]
        /\ solved(atTarget, targetComplete)

\* a dealt board with blanks and open sides, not solved as dealt
C5_Witness ==
  /\ pc = "done" /\ rotations = 0
  /\ \E i \in 1..Len(board) : board[i].type = "blank"
  /\ \E i \in 1..Len(board) : board[i].type = "crossCurve"
  /\ ~solved(board, completeDirs)
  /\ solved(AtTarget(board), computeCompleteDirs(AtTarget(board),
                                                 computeConnections(AtTarget(board))))

\* the open sides of every tile at its targetRotation
TargetEdges(layout) ==
  [i \in 1..Len(layout) |-> getEdges([layout[i] EXCEPT !.rotation = layout[i].targetRotation])]

RECURSIVE Flooded(_, _, _, _)
\* the positions a flood fill along open sides reaches; the tile below,
\* above or beside position i lies COLS or one position away
Flooded(layout, open, frontier, seen) ==
  IF frontier = {} THEN seen
  ELSE LET next == {i + (StepRow(0, d) * COLS) + StepCol(0, d) :
                      i \in frontier,
                      d \in Dirs} \ seen
           reached == {j \in next :
                         /\ j \in 1..Len(layout)
                         /\ layout[j].type # "blank"
                         /\ \E i \in frontier : \E d \in Dirs :
                              /\ open[i][d + 1]
                              /\ layout[j].r = StepRow(layout[i].r, d)
                              /\ layout[j].c = StepCol(layout[i].c, d)}
       IN  Flooded(layout, open, reached, seen \cup reached)

\* the flood fill from position i reaches all of nonBlank
FloodSpans(layout, open, nonBlank, i) == Flooded(layout, open, {i}, {i}) = nonBlank

\* from every non-blank cell the flood fill reaches every non-blank cell
SpansNonBlank(layout) ==
  \A i \in 1..Len(layout) :
    layout[i].type # "blank" =>
      FloodSpans(layout, TargetEdges(layout),
                 {k \in 1..Len(layout) : layout[k].type # "blank"}, i)

\* C7 as stated: on every board makeBoard returns, with the tiles at their
\* targetRotation, a flood fill along open sides from any non-blank cell
\* reaches every other non-blank cell.
C7_AlwaysSpans == pc = "done" => SpansNonBlank(board)

\* C7: on every board makeBoard returns after a carve passed the validation,
\* that is before the carve loop used up its attempts, a flood fill along the
\* open sides of the tiles at targetRotation, from any non-blank cell, reaches
\* every other non-blank cell.
C7_ValidatedSpans ==
  (pc = "done" /\ attemptSeed < CarveAttemptCap) => SpansNonBlank(board)

\* a board with blanks that passed the validation after failed attempts
C7_Witness ==
  /\ pc = "done" /\ attemptSeed > 0 /\ attemptSeed < CarveAttemptCap
  /\ \E i \in 1..Len(board) : board[i].type = "blank"
  /\ SpansNonBlank(board)

\* C10: every board makeBoard returns holds ROWS x COLS tiles in row-major
\* order, one per cell, the id being "row-col", the type one of the seven
\* types, rotation and targetRotation among 0, 1, 2, 3; the rotations made
\* afterwards keep all of this.
C10_BoardShape ==
  pc = "done" =>
    /\ Len(board) = ROWS * COLS
    /\ \A i \in 1..Len(board) :
         /\ board[i].r = (i - 1) \div COLS
         /\ board[i].c = (i - 1) % COLS
         /\ board[i].id = ToString(board[i].r) \o "-" \o ToString(board[i].c)
         /\ board[i].type \in TILE_TYPES
         /\ board[i].rotation \in 0..3
         /\ board[i].targetRotation \in 0..3

\* a board on which a tile was turned from rotation 3 on to rotation 0
C10_Witness ==
  /\ pc = "done" /\ rotations >= 2
  /\ Len(board) = 60
  /\ \E i \in 1..Len(board) :
       board[i].rotation = 0 /\ board[i].rotationDegrees = 360

\* C6 as stated: on every board makeBoard returns, as it is returned,
\* computeCompleteDirs reports no complete side on any tile.
C6_NoCompleteSide ==
  (pc = "done" /\ rotations = 0) => ~AnyComplete(completeDirs)

\* C6: on every board makeBoard returns before the scramble loop has used up
\* its attempts, computeCompleteDirs reports no complete side on any tile.
C6_NoCompleteSideBelowCap ==
  (pc = "done" /\ rotations = 0 /\ attempt < ScrambleAttemptCap)
    => ~AnyComplete(computeCompleteDirs(board, computeConnections(board)))

\* a board returned after a scramble that left a complete side was redone
C6_Witness ==
  /\ pc = "done" /\ rotations = 0
  /\ attempt > 0 /\ attempt < ScrambleAttemptCap
  /\ ~result.hasSolved
  /\ ~AnyComplete(completeDirs)

(***************************************************************************)
(* The connection maps after a rotation                                    *)
(***************************************************************************)
\* the tiles with nothing left but position, type and rotation
Bare(layout) ==
  [i \in 1..Len(layout) |->
     [layout[i] EXCEPT !.rotationDegrees = 0, !.targetRotation = 0]]

\* the board with nothing changed but the rotation of one tile, a step on
Advanced(layout, i) == [layout EXCEPT ![i].rotation = (layout[i].rotation + 1) % 4]

\* a rotateTile step on position i: no other tile changes, and the new maps
\* are the maps of the board with that one rotation advanced
RotationStep(i) ==
  /\ \A k \in 1..Len(board) : k # i => board'[k] = board[k]
  /\ board'[i].rotation = Advanced(board, i)[i].rotation
  /\ connections' = computeConnections(Advanced(board, i))
  /\ completeDirs' = computeCompleteDirs(Advanced(board, i),
                                         computeConnections(Advanced(board, i)))

\* C9: the connection maps are a function of the positions, types and
\* rotations of the tiles alone: they are the maps of the tiles stripped of
\* rotationDegrees and targetRotation, and a rotateTile(i) step leaves the
\* other tiles as they were and gives the maps of a copy of the board before
\* it in which only the rotation of tile i went a step on.
C9_PureOfRotations ==
  /\ [](pc = "done" =>
          /\ connections = computeConnections(Bare(board))
          /\ completeDirs = computeCompleteDirs(Bare(board), connections))
  /\ [][(pc = "done" /\ rotations' = rotations + 1)
          => \E i \in 1..Len(board) : board'[i] # board[i] /\ RotationStep(i)]_vars

\* a rotated board on which a tile is drawn a full turn on, a side of it
\* connected
C9_Witness ==
  /\ pc = "done" /\ rotations >= 2
  /\ \E i \in 1..Len(board) :
       /\ board[i].rotationDegrees >= 360
       /\ \E p \in 1..4 : connections[i][p]
  /\ \E i \in 1..Len(board) : board[i].rotation # board[i].targetRotation

(***************************************************************************)
(* Termination                                                             *)
(***************************************************************************)
\* makeBoard is synchronous code that runs to its end without yielding, so a
\* step of it that can be taken is taken: WF_vars(MakeBoard).  A step of
\* MakeBoard can be taken exactly where pc # "done", and the condition is
\* written with that state predicate in the place of ENABLED <<MakeBoard>>_vars.
FairSpec == Spec /\ ([]<>(pc = "done") \/ []<><<MakeBoard>>_vars)

\* C8: makeBoard terminates with a board: the counters of the carve loop,
\* of the blank loop and of the scramble loop never pass their caps of 60,
\* 40 and 20, the call reaches its return, and the board returned is built
\* from the last carve, validated or not.
C8_Terminates ==
  /\ [](/\ attemptSeed <= CarveAttemptCap
         /\ attempt <= ScrambleAttemptCap
         /\ pc = "blanks" => loc.attempts <= BlankAttemptCap)
  /\ [](pc = "done" =>
          /\ Len(board) = ROWS * COLS
          /\ \A i \in 1..Len(board) :
               getEdges([board[i] EXCEPT !.rotation = board[i].targetRotation])
                 = edgesByCell[i - 1])
  /\ <>(pc = "done")

\* a board returned although all sixty carves failed the validation
C8_Witness ==
  /\ pc = "done"
  /\ attemptSeed = CarveAttemptCap
  /\ ~PassesValidation(edgesByCell, config)
  /\ Len(board) = ROWS * COLS

(***************************************************************************)
(* A player rotation                                                       *)
(***************************************************************************)
\* tile i of the new array is tile i of the old one turned one step, every
\* other tile is the old one
OneTileTurned(before, after, i) ==
  /\ Len(after) = Len(before)
  /\ after[i] = [before[i] EXCEPT !.rotation = (before[i].rotation + 1) % 4,
                                  !.rotationDegrees = before[i].rotationDegrees + 90]
  /\ after[i].id = before[i].id /\ after[i].r = before[i].r /\ after[i].c = before[i].c
  /\ after[i].type = before[i].type
  /\ after[i].targetRotation = before[i].targetRotation
  /\ \A k \in 1..Len(before) : k # i => after[k] = before[k]

\* C11: a rotateTile(i) step changes exactly one tile: tile i gets its
\* rotation advanced by one step modulo 4 and its rotationDegrees by 90; the
\* number and order of the tiles, every other tile, and the id, position,
\* type and targetRotation of tile i stay as they were.
C11_OneTileRotates ==
  [][(pc = "done" /\ rotations' = rotations + 1) =>
       \E i \in 1..Len(board) : OneTileTurned(board, board', i)]_vars

\* a board on which one tile went round past rotation 3, beyond 270 degrees,
\* and no other tile differs from the tile dealt
C11_Witness ==
  /\ pc = "done" /\ rotations >= 1
  /\ Len(dealt) = 1
  /\ \E i \in 1..Len(board) :
       /\ board[i].rotation < dealt[1].tiles[i].rotation
       /\ board[i].rotationDegrees > 270
  /\ Cardinality({i \in 1..Len(board) : board[i] # dealt[1].tiles[i]}) = 1

(***************************************************************************)
(* The connection maps                                                     *)
(***************************************************************************)
\* the position of the tile beside position i in direction d, 0 off the grid
Facing(layout, i, d) ==
  IF InGrid(StepRow(layout[i].r, d), StepCol(layout[i].c, d))
    THEN Cell(StepRow(layout[i].r, d), StepCol(layout[i].c, d)) + 1
    ELSE 0

\* side d of the tile at position i is open at its current rotation
OpenSide(layout, i, d) == rotateEdges(BASE_EDGES[layout[i].type], layout[i].rotation)[d + 1]

\* side d of position i is open, it has a neighbour, and the neighbour's
\* opposite side is open
Meets(layout, i, d) ==
  /\ OpenSide(layout, i, d)
  /\ Facing(layout, i, d) # 0
  /\ OpenSide(layout, Facing(layout, i, d), (d + 2) % 4)

\* C12: computeConnections marks side d of a tile connected if and only if
\* the side is open at the tile's rotation, the grid neighbour in direction d
\* exists and the neighbour's opposite side is open; so a side is connected
\* exactly when the neighbour's opposite side is, and a side facing off the
\* grid is never connected.
C12_ConnectedIff ==
  pc = "done" =>
    \A i \in 1..Len(board) : \A d \in Dirs :
      /\ connections[i][d + 1] <=> Meets(board, i, d)
      /\ Facing(board, i, d) = 0 => ~connections[i][d + 1]
      /\ Facing(board, i, d) # 0 =>
           (connections[i][d + 1] <=> connections[Facing(board, i, d)][((d + 2) % 4) + 1])

\* a rotated board with a connected side, an open side facing a closed one,
\* and an open side facing off the grid
C12_Witness ==
  /\ pc = "done" /\ rotations > 0
  /\ \E i \in 1..Len(board) : \E d \in Dirs : connections[i][d + 1]
  /\ \E i \in 1..Len(board) : \E d \in Dirs :
       /\ OpenSide(board, i, d) /\ Facing(board, i, d) # 0
       /\ ~OpenSide(board, Facing(board, i, d), (d + 2) % 4)
       /\ ~connections[i][d + 1]
  /\ \E i \in 1..Len(board) : \E d \in Dirs :
       OpenSide(board, i, d) /\ Facing(board, i, d) = 0 /\ ~connections[i][d + 1]

\* the sides of one tile that the tile joins to its open side d: the other
\* side of a tile with two open sides, both others of a T-junction, the
\* partner by parity of a cross, none of a terminal
JoinedSides(tile, d) ==
  CASE tile.type = "crossCurve" ->
         IF tile.rotation % 2 = 0
           THEN {e \in Dirs : {d, e} \in {{0, 3}, {1, 2}}}
           ELSE {e \in Dirs : {d, e} \in {{0, 1}, {2, 3}}}
    [] tile.type \in {"straight", "curveLeft", "curveRight", "tJunction"} ->
         {e \in Dirs : e # d /\ rotateEdges(BASE_EDGES[tile.type], tile.rotation)[e + 1]}
    [] OTHER -> {}

\* the ports linked to a port in the port graph
PortLinks(layout, port) ==
  {<<port[1], e>> : e \in JoinedSides(layout[port[1]], port[2])}
    \cup (IF Meets(layout, port[1], port[2])
            THEN {<<Facing(layout, port[1], port[2]), (port[2] + 2) % 4>>}
            ELSE {})

\* the connected component of the port graph around a set of ports
RECURSIVE Component(_, _, _)
Component(layout, frontier, seen) ==
  IF frontier = {} THEN seen
  ELSE LET fresh == UNION {PortLinks(layout, port) : port \in frontier} \ seen
       IN  Component(layout, fresh, seen \cup fresh)

\* every port of `remaining` is marked complete exactly when its component
\* holds no port whose side is not connected; checked one component at a time
RECURSIVE ComponentsMarked(_, _, _)
ComponentsMarked(layout, marks, remaining) ==
  IF remaining = {} THEN TRUE
  ELSE LET port == CHOOSE p \in remaining : TRUE
           component == Component(layout, {port}, {port})
           dangling == \E q \in component : ~Meets(layout, q[1], q[2])
       IN  IF \A q \in component : marks[q[1]][q[2] + 1] = ~dangling
             THEN ComponentsMarked(layout, marks, remaining \ component)
             ELSE FALSE

\* every side that is no port is unmarked, and every port is marked as its
\* component tells
MarkedByComponent(layout, marks) ==
  /\ \A i \in 1..Len(layout) : \A d \in Dirs :
       ~OpenSide(layout, i, d) => ~marks[i][d + 1]
  /\ ComponentsMarked(layout, marks,
                      {port \in (1..Len(layout)) \X Dirs : OpenSide(layout, port[1], port[2])})

\* the board with the tiles of its first k rows turned to targetRotation
SolvedAbove(layout, k) ==
  [i \in 1..Len(layout) |->
     IF layout[i].r < k THEN [layout[i] EXCEPT !.rotation = layout[i].targetRotation]
     ELSE layout[i]]

\* the rows up to which the dealt board is taken as solved
SolvedRows == {4, 7, ROWS}

\* C13: computeCompleteDirs marks side d of a tile complete if and only if
\* the side is open (a port) and the connected component of that port in the
\* port graph holds no dangling port; the graph links the ports of one tile
\* (the pair of a two-way tile, all pairs of a T-junction, N-W and E-S of a
\* cross at even rotation, N-E and S-W at odd rotation, none for a terminal)
\* and links a port to the neighbour's opposite port across a connected side.
\* Checked on the maps of every board dealt and rotated, and on the maps
\* computed for the dealt board with its upper rows solved.
C13_CompleteIff ==
  pc = "done" =>
    /\ MarkedByComponent(board, completeDirs)
    /\ rotations = 0 =>
         \A k \in SolvedRows :
           MarkedByComponent(SolvedAbove(board, k),
                             computeCompleteDirs(SolvedAbove(board, k),
                                                 computeConnections(SolvedAbove(board, k))))

\* a dealt board with a cross: with every row solved the sides of the cross
\* are complete, with the upper four rows solved a connected side of a tile
\* in them is not complete
C13_Witness ==
  /\ pc = "done" /\ rotations = 0
  /\ LET solvedBoard == SolvedAbove(board, ROWS)
         solvedMarks == computeCompleteDirs(solvedBoard, computeConnections(solvedBoard))
         layout == SolvedAbove(board, 4)
         links == computeConnections(layout)
         marks == computeCompleteDirs(layout, links)
     IN  /\ \E i \in 1..Len(solvedBoard) :
              solvedBoard[i].type = "crossCurve" /\ \A d \in Dirs : solvedMarks[i][d + 1]
         /\ \E i \in 1..Len(layout) : \E d \in Dirs :
              layout[i].r < 4 /\ links[i][d + 1] /\ ~marks[i][d + 1]

(***************************************************************************)
(* The legacy seed formats                                                 *)
(***************************************************************************)
\* a whole number brought inside the range of a field
Within(key, n) ==
  IF n < PROGRESSION_SETTINGS_RANGES[key].min THEN PROGRESSION_SETTINGS_RANGES[key].min
  ELSE IF n > PROGRESSION_SETTINGS_RANGES[key].max THEN PROGRESSION_SETTINGS_RANGES[key].max
  ELSE n

\* what a seed of nine numbers is to be read as
ReadAsNine(numbers) ==
  [gapRate |-> Within("gapRate", numbers[1]),
   gapClusters |-> Within("gapClusters", numbers[2]),
   curveBias |-> Within("curveBias", numbers[3]),
   terminalRate |-> Within("terminalRate", numbers[4]),
   straightRunMax |-> Within("straightRunMax", numbers[5]),
   terminalSpacing |-> Within("terminalSpacing", numbers[6]),
   emptyRowMax |-> Within("emptyRowMax", numbers[7]),
   emptyColMax |-> Within("emptyColMax", numbers[8]),
   centerBias |-> 0,
   variant |-> Within("variant", numbers[9])]

\* what a seed of six numbers is to be read as
ReadAsSix(numbers) ==
  [gapRate |-> Within("gapRate", numbers[1]),
   gapClusters |-> Within("gapClusters", numbers[2]),
   curveBias |-> Within("curveBias", numbers[3]),
   terminalRate |-> Within("terminalRate", numbers[4]),
   straightRunMax |-> Within("straightRunMax", numbers[5]),
   terminalSpacing |-> 2,
   emptyRowMax |-> 2,
   emptyColMax |-> 2,
   centerBias |-> 0,
   variant |-> Within("variant", numbers[6])]

\* the seed text is the letter P, in either case, and the first n of the
\* numbers with dashes between them
WrittenAs(numbers, n) ==
  \E letter \in {80, 112} :
    input.seedText = Str(<<letter>> \o Dashed(SubSeq(numbers, 1, n), 1))

\* C14: both legacy seed formats parse.  A seed of nine numbers is read with
\* numbers 1-8 as in the full format, number 9 as variant and centerBias 0; a
\* seed of six numbers is read as gapRate, gapClusters, curveBias,
\* terminalRate, straightRunMax, variant, with terminalSpacing, emptyRowMax,
\* emptyColMax and centerBias at their defaults; every field is brought
\* inside its range.
C14_LegacyFormats ==
  parsedInput # None =>
    \A numbers \in SeedNumbers :
      /\ WrittenAs(numbers, 9) => parsedInput = ReadAsNine(numbers)
      /\ WrittenAs(numbers, 6) => parsedInput = ReadAsSix(numbers)

\* the nine-number seed p10-1-30-16-5-3-1-2-40 parsed: the ninth number, 40,
\* is the variant, brought down to 9, and centerBias is 0
C14_Witness ==
  /\ input.seedText = Str(<<112>> \o Dashed(<<10, 1, 30, 16, 5, 3, 1, 2, 40>>, 1))
  /\ parsedInput # None /\ parsedInput # NULL
  /\ parsedInput.variant = 9 /\ parsedInput.centerBias = 0
  /\ parsedInput.terminalSpacing = 3

(***************************************************************************)
(* The level list                                                          *)
(***************************************************************************)
\* App applies normalizeLevelList to a list read from storage or a file
NormalizeLevels ==
  /\ levelsOut = Unset
  /\ levelsOut' = normalizeLevelList(listIn)
  /\ UNCHANGED <<input, pc, genVars, appVars, dealt, settingsIn, normalized, seedOut,
                 parsed, parsedInput, listIn, bakedOut, analyticsVars>>

\* the bake plugin applies its copy to the list posted to it
BakeLevels ==
  /\ bakedOut = Unset
  /\ bakedOut' = bakeNormalizeLevelList(listIn)
  /\ UNCHANGED <<input, pc, genVars, appVars, dealt, settingsIn, normalized, seedOut,
                 parsed, parsedInput, listIn, levelsOut, analyticsVars>>

\* the entries lists are made of: texts, the empty text, and values that are
\* no text
LevelItems ==
  {Str(<<65>>), Str(<<66, 49>>), Str(<<>>), Num(1), JsNull, Undefined, Bool(TRUE),
   Arr(<<Str(<<65>>)>>)}

\* arrays of up to two entries
ShortLists ==
  {<<>>} \cup {<<a>> : a \in LevelItems} \cup {<<a, b>> : a \in LevelItems, b \in LevelItems}

\* arrays of n entries, all the text "A" but for entry k
LongList(n, k, item) == [i \in 1..n |-> IF i = k THEN item ELSE Str(<<65>>)]

\* arrays one short of, as long as and longer than the list of levels
LongLists ==
  {LongList(n, k, item) :
     n \in {TOTAL_LEVELS - 1, TOTAL_LEVELS, TOTAL_LEVELS + 1, TOTAL_LEVELS + 2},
     k \in {1, TOTAL_LEVELS - 1, TOTAL_LEVELS},
     item \in {Str(<<66>>), Num(7), JsNull}}

\* arrays, objects with a levels property, and other values
LevelInputs ==
  {Arr(items) : items \in ShortLists \cup LongLists}
    \cup {<<"obj", [levels |-> Arr(items)]>> :
            items \in {<<>>, <<Str(<<65>>), Num(1), Str(<<66>>)>>,
                       LongList(TOTAL_LEVELS + 1, 2, JsNull)}}
    \cup {<<"obj", [levels |-> Str(<<65, 66>>)]>>,
          <<"obj", [levels |-> <<"obj", [levels |-> Arr(<<Str(<<65>>)>>)]>>]>>,
          <<"obj", [list |-> Arr(<<Str(<<65>>)>>)]>>,
          EmptyObject, Undefined, JsNull, NaN, Num(0), Num(3), Bool(TRUE),
          Str(<<>>), Str(<<65, 66>>)}

InitLevels ==
  /\ input = [seedText |-> Undefined, difficulty |-> "medium"]
  /\ GenInit
  /\ settingsIn = Undefined
  /\ normalized = None /\ seedOut = Unset /\ parsed = None /\ parsedInput = None
  /\ listIn \in LevelInputs
  /\ levelsOut = Unset /\ bakedOut = Unset
  /\ AnalyticsIdle

NextLevels ==
  \/ NormalizeLevels
  \/ BakeLevels

SpecLevels == InitLevels /\ [][NextLevels]_vars

\* the elements of an input: those of an array, those of the levels array of
\* an object, none of anything else
ElementsOf(v) ==
  CASE v[1] = "arr" -> v[2]
    [] v[1] = "obj" /\ "levels" \in DOMAIN v[2] /\ v[2]["levels"][1] = "arr" -> v[2]["levels"][2]
    [] OTHER -> <<>>

\* C15: for any input (an array, an object with a levels array, anything
\* else) normalizeLevelList returns a list of exactly 96 entries, entry i
\* being the i-th element of the input when that element is a string and the
\* empty string otherwise; the copy in the bake plugin of the dev server
\* returns the same list.
C15_LevelList ==
  /\ levelsOut # Unset =>
       /\ Len(levelsOut) = 96
       /\ \A i \in 1..96 :
            levelsOut[i] = IF /\ i <= Len(ElementsOf(listIn))
                              /\ ElementsOf(listIn)[i][1] = "str"
                             THEN ElementsOf(listIn)[i]
                             ELSE Str(<<>>)
  /\ (levelsOut # Unset /\ bakedOut # Unset) => bakedOut = levelsOut

\* an array of 97 entries with a number at place 95, normalized both ways:
\* entry 95 is empty, entry 96 kept, entry 97 dropped
C15_Witness ==
  /\ listIn = Arr(LongList(97, 95, Num(7)))
  /\ levelsOut # Unset /\ bakedOut # Unset
  /\ Len(levelsOut) = 96
  /\ levelsOut[95] = Str(<<>>) /\ levelsOut[96] = Str(<<65>>)

(***************************************************************************)
(* The carve loop                                                          *)
(***************************************************************************)
\* (hash + 97 * k) mod 2^32 in 16-bit halves
ReseedWord(hash, k) ==
  <<(hash[1] + ((hash[2] + 97 * k) \div 65536)) % 65536, (hash[2] + 97 * k) % 65536>>

\* the checks a carve has to pass, one by one
AllChecksPass(layout, cfg) ==
  /\ countTerminals(layout) >= cfg.minTerminals
  /\ countTerminals(layout) <= cfg.maxTerminals
  /\ maxStraightRun(layout) <= cfg.maxStraightRunAllowed
  /\ ~hasCloseTerminals(layout, cfg.minTerminalDistance)
  /\ maxTerminalCluster(layout) <= cfg.maxTerminalClusterAllowed
  /\ isEdgeGraphConnected(layout)
  /\ countCurves(layout).curves >=
       (IF countCurves(layout).nonBlank = 0 THEN 0
        ELSE Max(8, RoundPercent(countCurves(layout).nonBlank, cfg.curveRatio)))

\* C16: carve attempt k (k = 0..59) restarts the generator from
\* (hash + 97 * k) mod 2^32; the attempts are made in increasing k, the next
\* one only after the carve at hand failed a check; the layout materialized
\* is that of the first attempt passing every check (terminal count, longest
\* straight run, terminal distance, terminal cluster, connectedness, curve
\* count), and only when all 60 attempts failed that of the 60th.
C16_FirstPassingCarve ==
  /\ [][(pc = "attempt" /\ pc' = "dfs") =>
          /\ attemptSeed \in 0..59
          /\ attemptSeed' = attemptSeed
          /\ t' = ReseedWord(hashStringToInt(SeedOrZen(input.seedText)), attemptSeed)]_vars
  /\ [][(attemptSeed' # attemptSeed /\ pc # "done") =>
          /\ attemptSeed' = attemptSeed + 1
          /\ pc = "validate" /\ pc' = "attempt"
          /\ ~AllChecksPass(edgesByCell, config)
          /\ edgesByCell' = edgesByCell]_vars
  /\ [][pc = "validate" =>
          /\ edgesByCell' = edgesByCell
          /\ IF AllChecksPass(edgesByCell, config)
               THEN pc' = "materialize" /\ attemptSeed' = attemptSeed
               ELSE pc' = "attempt" /\ attemptSeed' = attemptSeed + 1]_vars
  /\ [][(pc' = "scramble" /\ pc # "scramble") =>
          /\ \/ attemptSeed < 60 /\ AllChecksPass(edgesByCell, config)
             \/ attemptSeed = 60 /\ ~AllChecksPass(edgesByCell, config)
          /\ tiles' = MaterializeTiles(edgesByCell)
          /\ \A i \in 1..Len(tiles') :
               rotateEdges(BASE_EDGES[tiles'[i].type], tiles'[i].targetRotation)
                 = edgesByCell[i - 1]]_vars

\* the tiles materialized from a carve that passed every check after carves
\* before it had failed
C16_Witness ==
  /\ pc = "scramble" /\ attempt = 0
  /\ attemptSeed \in 1..59
  /\ AllChecksPass(edgesByCell, config)
  /\ Len(tiles) = ROWS * COLS

(***************************************************************************)
(* The scramble loop                                                       *)
(***************************************************************************)
\* the scrambles drawn so far by the running or finished call: the one drawn
\* before the loop and one per iteration of it
ScramblesDrawn == attempt + 1

\* C17: makeBoard draws at most 20 scrambles in total; a scramble with a
\* complete side on some tile is discarded and another is drawn, and the
\* board returned is the first scramble without a complete side or, the cap
\* reached, the last one drawn.
C17_AtMostTwentyScrambles ==
  /\ pc \in {"scramble", "done"} => ScramblesDrawn <= 20
  /\ (pc = "done" /\ rotations = 0) =>
       /\ board = result.next
       /\ result.hasSolved = AnyComplete(completeDirs)
       /\ result.hasSolved => ScramblesDrawn >= 20

(***************************************************************************)
(* C18: the walk of generateSolvedEdges carves a spanning tree             *)
(***************************************************************************)
\* the number of open sides of the cells from k on
RECURSIVE OpenSidesFrom(_, _)
OpenSidesFrom(layout, k) ==
  IF k >= ROWS * COLS THEN 0
  ELSE Degree(layout[k]) + OpenSidesFrom(layout, k + 1)

\* the number of edges of a layout whose open sides face each other
EdgeCount(layout) == OpenSidesFrom(layout, 0) \div 2

\* every open side has a cell behind it whose side towards this cell is open
SidesPaired(layout) ==
  \A k \in Cells : \A d \in Dirs :
    layout[k][d + 1] =>
      HasNeighbor(k, d) /\ layout[Neighbor(k, d)][oppositeDir(d) + 1]

\* the cells joined by open sides to the cells of reached, of which those of
\* frontier have not been looked at
RECURSIVE JoinedFrom(_, _, _)
JoinedFrom(layout, frontier, reached) ==
  LET more == {Neighbor(k[1], k[2]) :
                 k \in {x \in frontier \X Dirs :
                          layout[x[1]][x[2] + 1] /\ HasNeighbor(x[1], x[2])}} \ reached
  IN  IF more = {} THEN reached ELSE JoinedFrom(layout, more, reached \cup more)

JoinedTo(layout, start) == JoinedFrom(layout, start, start)

\* C18: while the depth first walk of generateSolvedEdges runs there is one
\* edge less than there are visited cells; when the walk has finished (empty
\* stack, no shaping pass run yet) the open sides are paired, every cell of
\* the grid is visited and has an entry, every cell is joined to cell 0-0 by
\* open sides, and the layout has exactly ROWS * COLS - 1 edges, so no cycle.
C18_SpanningTree ==
  pc = "dfs" =>
    /\ EdgeCount(edgesByCell) = Cardinality(loc.visited) - 1
    /\ Len(loc.stack) = 0 =>
         /\ SidesPaired(edgesByCell)
         /\ loc.visited = Cells
         /\ {keys[i] : i \in 1..Len(keys)} = Cells
         /\ Len(keys) = ROWS * COLS
         /\ JoinedTo(edgesByCell, {0}) = Cells
         /\ EdgeCount(edgesByCell) = ROWS * COLS - 1

\* a walk of a later carve attempt has finished with a tree that branches
C18_Witness ==
  /\ pc = "dfs"
  /\ Len(loc.stack) = 0
  /\ attemptSeed > 0
  /\ JoinedTo(edgesByCell, {0}) = Cells
  /\ EdgeCount(edgesByCell) = ROWS * COLS - 1
  /\ \E k \in Cells : Degree(edgesByCell[k]) >= 3

(***************************************************************************)
(* C19: the cross cap and the shaping passes                               *)
(***************************************************************************)
\* the cells with four open sides
CrossCells(layout) == {k \in Cells : Degree(layout[k]) = 4}

\* at most one cell of degree 4, and none on the boundary
CrossCapHolds(layout) ==
  /\ Cardinality(CrossCells(layout)) <= 1
  /\ \A k \in CrossCells(layout) : ~isBoundaryCell(RowOf(k), ColOf(k))

\* generateSolvedEdges is at its return statement
CarveReturns ==
  /\ pc = "treduce"
  /\ ~(loc.i <= Len(loc.tCells) /\ countTJunctions(edgesByCell) > maxTJunctions)

\* the crossCurve tiles of a board
CrossTiles(layout) == {i \in 1..Len(layout) : layout[i].type = "crossCurve"}

TJunctionCells(layout) == {k \in Cells : Degree(layout[k]) = 3}

\* C20: every layout generateSolvedEdges returns has at most
\* max(2, floor(ROWS * COLS / 6)) = 10 cells of degree 3.
C20_TJunctionCap ==
  CarveReturns =>
    Cardinality(TJunctionCells(edgesByCell)) <= Max(2, (ROWS * COLS) \div 6)

(***************************************************************************)
(* C21: canRemoveEdge never disconnects                                    *)
(***************************************************************************)
\* every cell is joined to cell 0-0 by open sides
AllJoined(layout) == JoinedTo(layout, {0}) = Cells

\* the layout with the edge of cell k in direction d closed on both cells
WithoutEdge(layout, k, d) ==
  [c \in Cells |->
     [p \in 1..4 |->
        IF c = k /\ p = d + 1 THEN FALSE
        ELSE IF HasNeighbor(k, d) /\ c = Neighbor(k, d) /\ p = oppositeDir(d) + 1 THEN FALSE
        ELSE layout[c][p]]]

\* what a call canRemoveEdge(r, c, dir) on layout has to give
RemovalAsSpecified(layout, k, d) ==
  LET res == canRemoveEdge(layout, k, d)
      wanted == HasNeighbor(k, d) /\ layout[k][d + 1] /\ AllJoined(WithoutEdge(layout, k, d))
  IN  /\ res.ok = wanted
      /\ res.edges = IF wanted THEN WithoutEdge(layout, k, d) ELSE layout

\* C21: canRemoveEdge commits a removal only if every cell is still joined to
\* cell 0-0 by open edges afterwards; a call that would disconnect the graph,
\* or names an absent edge or an off-grid neighbour, answers false and leaves
\* the edge map as it was.  So the removal passes keep the layout connected over
\* all ROWS * COLS cells, each step of the T reduction changes nothing or closes
\* one edge, and every layout generateSolvedEdges returns is connected.
C21_RemovalKeepsConnected ==
  /\ [](pc = "treduce" => AllJoined(edgesByCell))
  /\ [](CarveReturns =>
          \A k \in Cells : \A d \in Dirs : RemovalAsSpecified(edgesByCell, k, d))
  /\ [][(pc = "treduce" /\ pc' = "treduce") =>
          \/ edgesByCell' = edgesByCell
          \/ \E d \in Dirs :
               /\ edgesByCell[loc'.tCells[loc.i]][d + 1]
               /\ edgesByCell' = WithoutEdge(edgesByCell, loc'.tCells[loc.i], d)]_vars

\* generateSolvedEdges returns after the T reduction has run; the layout has
\* an edge whose removal is refused and an edge whose removal is committed
C21_Witness ==
  /\ CarveReturns
  /\ loc.i > 1
  /\ \E k \in Cells : \E d \in Dirs :
       edgesByCell[k][d + 1] /\ ~canRemoveEdge(edgesByCell, k, d).ok
  /\ \E k \in Cells : \E d \in Dirs : canRemoveEdge(edgesByCell, k, d).ok

(***************************************************************************)
(* C22: edge reciprocity during generation                                 *)
(***************************************************************************)
\* the program counters of generateSolvedEdges and applySymmetricBlanks
GenerationSteps == {"dfs", "inject", "promote", "mirror", "treduce", "blanks", "validate"}

\* a side is open exactly when the neighbour's opposite side is, and no open
\* side faces off the grid: each pair of facing sides is compared once, from
\* the lower and from the right cell (sides 1..4 are up, right, down, left)
Reciprocal(layout) ==
  \A k \in Cells :
    /\ IF RowOf(k) > 0 THEN layout[k][1] = layout[k - COLS][3] ELSE ~layout[k][1]
    /\ IF ColOf(k) > 0 THEN layout[k][4] = layout[k - 1][2] ELSE ~layout[k][4]
    /\ RowOf(k) = ROWS - 1 => ~layout[k][3]
    /\ ColOf(k) = COLS - 1 => ~layout[k][2]

\* C22: after every step of generation (walk, cycle injection, promotion,
\* mirror pass, defensive drop, edge removal, blank carving) a cell has an open
\* side toward a neighbour if and only if the neighbour has the opposite side
\* open, and no cell has an open side facing off the grid.
C22_EdgesReciprocal == pc \in GenerationSteps => Reciprocal(edgesByCell)

\* blanks were carved out of a layout that the passes had shaped
C22_Witness ==
  /\ pc = "validate"
  /\ config.blankMax > 0
  /\ \E k \in Cells : Degree(edgesByCell[k]) = 0
  /\ \E k \in Cells : Degree(edgesByCell[k]) >= 3
  /\ Reciprocal(edgesByCell)

(***************************************************************************)
(* C26: pickTypeForEdges and getEdges are inverse on the 16 edge-sets      *)
(***************************************************************************)
EdgeSets == [1..4 -> BOOLEAN]

\* the type an edge-set of that shape has to get
TypesFor(edges) ==
  LET open == {p \in 1..4 : edges[p]}
  IN  CASE Cardinality(open) = 0 -> {"blank"}
        [] Cardinality(open) = 1 -> {"terminal"}
        [] Cardinality(open) = 2 ->
             IF open \in {{1, 3}, {2, 4}} THEN {"straight"} ELSE {"curveLeft", "curveRight"}
        [] Cardinality(open) = 3 -> {"tJunction"}
        [] OTHER -> {"crossCurve"}

\* the open sides of a tile of that type at that rotation
EdgesOfPick(picked) ==
  getEdges([type |-> picked.type, rotation |-> picked.rotation])

PickIsExact(edges) ==
  LET picked == pickTypeForEdges(edges)
  IN  /\ picked.rotation \in 0..3
      /\ picked.type \in TypesFor(edges)
      /\ \A p \in 1..4 : EdgesOfPick(picked)[p] = edges[p]

\* C26: for each of the 16 edge-sets pickTypeForEdges returns a type and a
\* rotation whose open sides (getEdges) are exactly the edge-set, the type being
\* fixed by the degree (0 blank, 1 terminal, 2 straight for opposite sides and
\* a curve for adjacent ones, 3 tJunction, 4 crossCurve), so the fallback to
\* blank is taken for no edge-set with an open side; and the tiles makeBoard
\* builds from a layout have the open sides of the layout at targetRotation.
C26_PickRoundTrip ==
  /\ \A edges \in EdgeSets : PickIsExact(edges)
  /\ pc = "scramble" =>
       \A i \in 1..Len(tiles) :
         /\ tiles[i].type \in TypesFor(edgesByCell[i - 1])
         /\ \A p \in 1..4 :
              getEdges([tiles[i] EXCEPT !.rotation = tiles[i].targetRotation])[p]
                = edgesByCell[i - 1][p]

\* tiles were built from a layout that holds every shape of edge-set: every
\* type is on the board but curveRight, whose four rotations are those of
\* curveLeft, the candidate tried first
C26_Witness ==
  /\ pc = "scramble"
  /\ Len(tiles) = ROWS * COLS
  /\ {tiles[i].type : i \in 1..Len(tiles)} = DOMAIN BASE_EDGES \ {"curveRight"}

(***************************************************************************)
(* C23: the blank set is severed from the layout                           *)
(***************************************************************************)
\* the cell has no open side and no neighbour has an open side facing it
CutOff(layout, k) ==
  /\ Degree(layout[k]) = 0
  /\ \A d \in Dirs :
       HasNeighbor(k, d) => ~layout[Neighbor(k, d)][oppositeDir(d) + 1]

\* C23: when applySymmetricBlanks returns with a positive target, every cell
\* of the blank set it ended with has degree 0 and no neighbour keeps an open
\* side facing it, whether the set passed the checks or is the set of the 40th
\* failed attempt; sides between two cells outside the set are left as they were.
C23_BlanksSevered ==
  [][(pc = "blanks" /\ pc' = "validate") =>
       /\ loc.accepted \/ loc.attempts >= BlankAttemptCap
       /\ \A k \in SeqSet(loc.blanks) : CutOff(edgesByCell', k)
       /\ \A k \in Cells \ SeqSet(loc.blanks) : \A d \in Dirs :
            (HasNeighbor(k, d) /\ Neighbor(k, d) \notin SeqSet(loc.blanks)) =>
              edgesByCell'[k][d + 1] = edgesByCell[k][d + 1]]_vars

\* blanks were carved: a whole quad is cut off next to a cell that kept a side
C23_Witness ==
  /\ pc = "validate"
  /\ config.blankMax > 0
  /\ \E k \in Cells :
       /\ \A m \in {k, Cell(RowOf(k), COLS - 1 - ColOf(k)),
                    Cell(ROWS - 1 - RowOf(k), ColOf(k)),
                    Cell(ROWS - 1 - RowOf(k), COLS - 1 - ColOf(k))} :
            CutOff(edgesByCell, m)
       /\ \E d \in Dirs : HasNeighbor(k, d) /\ Degree(edgesByCell[Neighbor(k, d)]) > 0

(***************************************************************************)
(* C24: what the blank loop accepts                                        *)
(***************************************************************************)
\* the cells outside blankSet that grid adjacency joins to the cells of reached
RECURSIVE FilledFrom(_, _, _)
FilledFrom(blankSet, frontier, reached) ==
  LET more == ({Neighbor(x[1], x[2]) :
                  x \in {y \in frontier \X Dirs : HasNeighbor(y[1], y[2])}} \ blankSet)
                \ reached
  IN  IF more = {} THEN reached ELSE FilledFrom(blankSet, more, reached \cup more)

\* the cells that are not blank form one component under grid adjacency
RemainderJoined(blankSet) ==
  \A k \in Cells \ blankSet : FilledFrom(blankSet, {k}, {k}) = Cells \ blankSet

RowBlank(blankSet, r) == \A c \in 0..(COLS - 1) : Cell(r, c) \in blankSet

ColBlank(blankSet, c) == \A r \in 0..(ROWS - 1) : Cell(r, c) \in blankSet

\* no more than cap consecutive rows, or columns, are blank throughout
RowRunsWithin(blankSet, cap) ==
  \A r \in 0..(ROWS - 1 - cap) : \E o \in r..(r + cap) : ~RowBlank(blankSet, o)

ColRunsWithin(blankSet, cap) ==
  \A c \in 0..(COLS - 1 - cap) : \E o \in c..(c + cap) : ~ColBlank(blankSet, o)

\* C24: the blank set is derived at most 40 times, for a groupTarget of at
\* least 1 and at most one less than the number of quad groups; when the loop
\* stops before the 40 attempts are used up, the accepted set has exactly
\* groupTarget * 4 cells, the cells that are not blank form one component under
\* grid adjacency, and no run of blank rows (columns) is longer than
\* maxEmptyRowRun (maxEmptyColRun).
C24_BlankAcceptance ==
  pc = "blanks" =>
    /\ loc.attempts <= BlankAttemptCap
    /\ loc.groupTarget >= 1 /\ loc.groupTarget <= totalGroups - 1
    /\ loc.accepted =>
         /\ loc.attempts < BlankAttemptCap
         /\ Cardinality(SeqSet(loc.blanks)) = loc.groupTarget * 4
         /\ RemainderJoined(SeqSet(loc.blanks))
         /\ RowRunsWithin(SeqSet(loc.blanks), config.maxEmptyRowRun)
         /\ ColRunsWithin(SeqSet(loc.blanks), config.maxEmptyColRun)

\* a set was accepted after an earlier one had been turned down
C24_Witness ==
  /\ pc = "blanks"
  /\ loc.accepted
  /\ loc.attempts > 0
  /\ loc.groupTarget >= 2
  /\ Cardinality(SeqSet(loc.blanks)) = loc.groupTarget * 4

(***************************************************************************)
(* C25: the symmetry of the blanks                                         *)
(***************************************************************************)
\* the images of cell k under the reflections across the two axes and both
Mirrors(k) ==
  {k, Cell(RowOf(k), COLS - 1 - ColOf(k)), Cell(ROWS - 1 - RowOf(k), ColOf(k)),
   Cell(ROWS - 1 - RowOf(k), COLS - 1 - ColOf(k))}

\* the set is made of whole mirrored quads
WholeQuads(cells) ==
  /\ \A k \in cells : Mirrors(k) \subseteq cells /\ Cardinality(Mirrors(k)) = 4
  /\ Cardinality(cells) % 4 = 0

\* the cells of the blank tiles of a board
BlankTiles(layout) ==
  {Cell(layout[i].r, layout[i].c) : i \in {j \in 1..Len(layout) : layout[j].type = "blank"}}

\* C25: in every board makeBoard returns the set of blank tiles is made of
\* whole mirrored quads: it is closed under the reflection across the vertical
\* axis, across the horizontal axis and across both, and its size is a multiple
\* of 4.
C25_BlankTilesSymmetric == pc = "done" => WholeQuads(BlankTiles(board))

\* the cells that have an open side before the blank set is cut out and every
\* open side of which leads into the blank set
Stranded(layout, blankSet) ==
  {k \in Cells \ blankSet :
     /\ Degree(layout[k]) > 0
     /\ \A d \in Dirs : layout[k][d + 1] => Neighbor(k, d) \in blankSet}

\* What the carver does keep: the blank set applySymmetricBlanks cuts out is made
\* of whole mirrored quads (closed under the three reflections, a multiple of 4),
\* and the cells without an open side afterwards are those of the set and the
\* cells every open side of which led into the set.  The blank tiles of the
\* board returned are the cells without an open side, so a board can hold
\* blank tiles outside the quads and a number of them that is no multiple of 4.
BlankSetSymmetric ==
  /\ [][(pc = "blanks" /\ pc' = "validate") =>
          /\ WholeQuads(SeqSet(loc.blanks))
          /\ {k \in Cells : Degree(edgesByCell'[k]) = 0}
               = SeqSet(loc.blanks) \cup Stranded(edgesByCell, SeqSet(loc.blanks))]_vars
  /\ [](pc = "done" => BlankTiles(board) = {k \in Cells : Degree(edgesByCell[k]) = 0})

(***************************************************************************)
(* C27: a progression seed dealt under every difficulty                    *)
(***************************************************************************)
\* the seeds of two progression levels, each with every difficulty the App
\* can pass and one it does not know
ProgressInputs ==
  {[seedText |-> Str(Text(chars)), difficulty |-> difficulty] :
     chars \in {<<"P", "8", "-", "0", "-", "2", "8", "-", "1", "8", "-", "4", "-", "2",
                  "-", "2", "-", "2", "-", "0", "-", "3">>,
                <<"P", "0", "-", "0", "-", "2", "4", "-", "1", "2", "-", "4", "-", "2",
                  "-", "0", "-", "0", "-", "0", "-", "4", "3">>},
     difficulty \in DifficultyInputs}

InitProgress ==
  /\ input \in ProgressInputs
  /\ GenInit
  /\ HelpersIdle

\* the effect of the progress level: the level's seed is dealt again when the
\* difficulty index changes
RegenerateLevel == \E difficulty \in DifficultyInputs \ {input.difficulty} :
  regenerate([input EXCEPT !.difficulty = difficulty])

NextProgress ==
  \/ MakeBoard
  \/ RegenerateLevel

SpecProgress == InitProgress /\ [][NextProgress]_vars

\* C27: when the seed text parses as a progression seed, makeBoard returns the
\* same board for every difficulty argument (easy, medium, hard or one it does
\* not know): the blank count, the clusters, the curve ratio, the terminal
\* bounds, the cap on straight runs and the terminal spacing all come from the
\* parsed settings alone.
C27_SeedOverridesDifficulty ==
  LET fromSeed == progressionSettingsToBoardConfig(parseProgressionSeed(input.seedText))
  IN  /\ parseProgressionSeed(input.seedText) # NULL
      /\ \A i \in 1..Len(dealt) : \A j \in 1..Len(dealt) :
           dealt[i].input.seedText = dealt[j].input.seedText
             => SameTiles(dealt[i].tiles, dealt[j].tiles)
      /\ config # None =>
           /\ \A difficulty \in DifficultyInputs :
                config = makeBoardConfig(input.seedText, difficulty)
           /\ config.blankMin = fromSeed.blanks.min
           /\ config.blankMax = fromSeed.blanks.max
           /\ config.clusters = fromSeed.blanks.clusters
           /\ config.minClusterCells = fromSeed.blanks.minClusterCells
           /\ config.curveRatio = fromSeed.curveRatio
           /\ config.minTerminals = fromSeed.minTerminals
           /\ config.maxTerminals = fromSeed.maxTerminals
           /\ config.maxStraightRunAllowed = fromSeed.maxStraightRunAllowed
           /\ config.minTerminalDistance = fromSeed.minTerminalDistance

\* the same level dealt as hard and then as easy: the two boards agree and
\* have the blanks of the seed, which neither difficulty would give
C27_Witness ==
  /\ Len(dealt) = 2
  /\ dealt[1].input.difficulty = "hard" /\ dealt[2].input.difficulty = "easy"
  /\ SameTiles(dealt[1].tiles, dealt[2].tiles)
  /\ \E k \in 1..Len(dealt[2].tiles) : dealt[2].tiles[k].type = "blank"
  /\ difficultyConfig.hard.max < config.blankMax
  /\ config.blankMax < difficultyConfig.easy.min

(***************************************************************************)
(* C28: analytics.js and the consent handlers of App                       *)
(***************************************************************************)
\* the handleAnalyticsConsent calls explored in one run
MaxConsentCalls == 4

\* the events captured in one run
MaxCaptured == 2

\* track(eventName) on the given module state: nothing unless isReady and
\* posthogInstance are set; PostHog records the event when it is opted in,
\* here with the choice stored when the call is made
track(ready, instance, optedIn, events, eventName) ==
  IF ~ready \/ ~instance THEN events
  ELSE IF optedIn THEN Append(events, [name |-> eventName, consent |-> storedConsent'])
  ELSE events

RECURSIVE Resumed(_, _, _, _, _)
\* the suspended handleAnalyticsConsent calls run on from their await, each
\* calling track("analytics_consent", ...)
Resumed(n, ready, instance, optedIn, events) ==
  IF n = 0 THEN events
  ELSE Resumed(n - 1, ready, instance, optedIn,
               track(ready, instance, optedIn, events, "analytics_consent"))

\* the App mounts with the choice a former visit stored; with "granted" its
\* effect has called initAnalytics, whose import is under way
InitAnalytics ==
  /\ input = [seedText |-> Undefined, difficulty |-> "medium"]
  /\ GenInit
  /\ settingsIn = Undefined
  /\ normalized = None /\ seedOut = Unset /\ parsed = None /\ parsedInput = None
  /\ listIn = Undefined /\ levelsOut = Unset /\ bakedOut = Unset
  /\ hasKey \in BOOLEAN
  /\ storedConsent \in {"null", "granted", "denied"}
  /\ consentCalls = <<>>
  /\ analyticsConsent = storedConsent
  /\ posthogInstance = FALSE /\ isReady = FALSE
  /\ initPromise = IF storedConsent = "granted" /\ hasKey THEN "pending" ELSE "null"
  /\ awaiting = 0 /\ capturing = FALSE /\ captured = <<>>

\* handleAnalyticsConsent("granted"): setAnalyticsConsent stores the choice and
\* calls initAnalytics, the handler awaits initAnalytics() and then tracks;
\* with the import pending the handler stays suspended
AllowAnalytics ==
  /\ Len(consentCalls) < MaxConsentCalls
  /\ storedConsent' = "granted"
  /\ consentCalls' = Append(consentCalls, "granted")
  /\ analyticsConsent' = "granted"
  /\ IF isReady \/ initPromise = "resolved" \/ ~hasKey
       THEN /\ captured' = track(isReady, posthogInstance, capturing, captured,
                                 "analytics_consent")
            /\ UNCHANGED <<initPromise, awaiting>>
       ELSE /\ initPromise' = "pending"
            /\ awaiting' = awaiting + 1
            /\ UNCHANGED captured
  /\ UNCHANGED <<hasKey, posthogInstance, isReady, capturing>>
  /\ UNCHANGED <<input, pc, genVars, appVars, dealt, settingsIn, normalized, seedOut,
                 parsed, parsedInput, levelVars>>

\* handleAnalyticsConsent("denied"): setAnalyticsConsent stores the choice and
\* opts out when the library is loaded and ready
DenyAnalytics ==
  /\ Len(consentCalls) < MaxConsentCalls
  /\ storedConsent' = "denied"
  /\ consentCalls' = Append(consentCalls, "denied")
  /\ analyticsConsent' = "denied"
  /\ capturing' = IF posthogInstance /\ isReady THEN FALSE ELSE capturing
  /\ UNCHANGED <<hasKey, posthogInstance, isReady, initPromise, awaiting, captured>>
  /\ UNCHANGED <<input, pc, genVars, appVars, dealt, settingsIn, normalized, seedOut,
                 parsed, parsedInput, levelVars>>

\* the import resolves: the then-callback of initAnalytics sets up PostHog,
\* opts in and sets isReady; the handlers awaiting the promise run on
ImportResolves ==
  /\ initPromise = "pending"
  /\ posthogInstance' = TRUE
  /\ capturing' = TRUE
  /\ isReady' = TRUE
  /\ initPromise' = "resolved"
  /\ UNCHANGED <<hasKey, storedConsent, consentCalls, analyticsConsent>>
  /\ captured' = Resumed(awaiting, TRUE, TRUE, TRUE, captured)
  /\ awaiting' = 0
  /\ UNCHANGED <<input, pc, genVars, appVars, dealt, settingsIn, normalized, seedOut,
                 parsed, parsedInput, levelVars>>

\* the import fails: the catch-callback clears initPromise; the handlers
\* awaiting the promise run on and track nothing
ImportFails ==
  /\ initPromise = "pending"
  /\ initPromise' = "null"
  /\ UNCHANGED <<hasKey, storedConsent, consentCalls, analyticsConsent, posthogInstance,
                 isReady, capturing>>
  /\ captured' = Resumed(awaiting, isReady, posthogInstance, capturing, captured)
  /\ awaiting' = 0
  /\ UNCHANGED <<input, pc, genVars, appVars, dealt, settingsIn, normalized, seedOut,
                 parsed, parsedInput, levelVars>>

\* emitEvent(name): nothing unless the App's consent state is "granted"
emitEvent(eventName) ==
  /\ analyticsConsent = "granted"
  /\ isReady /\ posthogInstance /\ capturing
  /\ Len(captured) < MaxCaptured
  /\ UNCHANGED <<hasKey, storedConsent, consentCalls, analyticsConsent, posthogInstance,
                 isReady, initPromise, awaiting, capturing>>
  /\ captured' = track(isReady, posthogInstance, capturing, captured, eventName)
  /\ UNCHANGED <<input, pc, genVars, appVars, dealt, settingsIn, normalized, seedOut,
                 parsed, parsedInput, levelVars>>

NextAnalytics ==
  \/ AllowAnalytics
  \/ DenyAnalytics
  \/ ImportResolves
  \/ ImportFails
  \/ \E eventName \in {"screen_view", "tile_rotated"} : emitEvent(eventName)

SpecAnalytics == InitAnalytics /\ [][NextAnalytics]_vars

\* C28: once setAnalyticsConsent has been called with "denied" and not with
\* "granted" afterwards, PostHog is not left opted in to capturing and no
\* event is captured, however the calls interleave with an initAnalytics call
\* whose import is still pending when the denial arrives.
C28_DenialStopsCapture ==
  /\ (consentCalls # <<>> /\ consentCalls[Len(consentCalls)] = "denied") => ~capturing
  /\ \A i \in 1..Len(captured) : captured[i].consent # "denied"

(***************************************************************************)
(* C29: solved and the dangling ports                                      *)
(***************************************************************************)
\* every open side of every tile is connected to its neighbour
NoDanglingPort(layout, links) ==
  \A i \in 1..Len(layout) : \A d \in Dirs :
    getEdges(layout[i])[d + 1] => links[i][d + 1]

\* solved tells the same as NoDanglingPort on the maps computed for a board
SolvedTellsConnected(layout) ==
  LET links == computeConnections(layout)
  IN  solved(layout, computeCompleteDirs(layout, links)) <=> NoDanglingPort(layout, links)

\* C29: for every board in every rotation state the solved predicate (every
\* open side of every tile is complete) holds if and only if every open side
\* of every tile is connected to its neighbour.  Checked on every board dealt
\* and rotated, and on the dealt board with its upper rows, or all rows,
\* turned to the solved rotation.
C29_SolvedIffNoDangling ==
  pc = "done" =>
    /\ solved(board, completeDirs) <=> NoDanglingPort(board, connections)
    /\ rotations = 0 => \A k \in SolvedRows : SolvedTellsConnected(SolvedAbove(board, k))

\* a dealt board that is not solved and has a dangling port, and is solved
\* without one once every row is turned to the solved rotation
C29_Witness ==
  /\ pc = "done" /\ rotations = 0
  /\ ~solved(board, completeDirs) /\ ~NoDanglingPort(board, connections)
  /\ LET layout == SolvedAbove(board, ROWS)
         links == computeConnections(layout)
     IN  /\ solved(layout, computeCompleteDirs(layout, links))
         /\ NoDanglingPort(layout, links)
         /\ \E i \in 1..Len(layout) : layout[i].type = "blank"

(***************************************************************************)
(* C30: four quarter turns of one tile                                     *)
(***************************************************************************)
\* the board as makeBoard returned it, before any rotateTile call
DealtBoard == dealt[Len(dealt)].tiles

\* the rotateTile calls since the deal were all made on the tile at index:
\* every call adds to the rotationDegrees of its tile, and no other tile
\* differs from the one dealt
OnlyTurned(index) ==
  \A j \in 1..Len(board) : j # index + 1 => board[j] = DealtBoard[j]

\* C30: after four consecutive rotateTile calls on the same tile, and no other
\* action, every tile's rotation, the connection map, the completion map and
\* the solved flag equal their values before the four calls, while that
\* tile's rotationDegrees is larger by exactly 360.
C30_FourTurnsIdentity ==
  (pc = "done" /\ rotations = 4) =>
    \A index \in RotatableIndices :
      OnlyTurned(index) =>
        LET before == computeConnections(DealtBoard)
        IN  /\ \A j \in 1..Len(board) : board[j].rotation = DealtBoard[j].rotation
            /\ connections = before
            /\ completeDirs = computeCompleteDirs(DealtBoard, before)
            /\ solved(board, completeDirs)
                 <=> solved(DealtBoard, computeCompleteDirs(DealtBoard, before))
            /\ board[index + 1].rotationDegrees = DealtBoard[index + 1].rotationDegrees + 360

\* four calls on one tile with two open sides, one of them connected
C30_Witness ==
  /\ pc = "done" /\ rotations = 4
  /\ \E index \in RotatableIndices :
       /\ OnlyTurned(index)
       /\ board[index + 1].rotationDegrees = DealtBoard[index + 1].rotationDegrees + 360
       /\ board[index + 1].type \in {"straight", "curveLeft", "tJunction"}
       /\ \E p \in 1..4 : connections[index + 1][p]

====
